---- MODULE Spec2Model ----
(***************************************************************************)
(* State-machine model of the judgeme-proxy service                        *)
(* (src/unnamed/part_002, the most complete variant of the server; the     *)
(* /fetch and /products handlers are the same in src/index.js and          *)
(* src/unnamed/part_001).                                                  *)
(*                                                                         *)
(* Node runs each handler on one thread: the code between two awaits is    *)
(* one atomic step.  An action of this model is one such step of one       *)
(* request: from the arrival of the request (or of an upstream response)   *)
(* to the next await or to the response.                                   *)
(***************************************************************************)
EXTENDS Integers, Sequences, FiniteSets, TLC

VARIABLES
  now,           \* Date.now(), in ms since the process started (always > 0)
  ticks,         \* number of clock advances so far
  reviewsCache,  \* let reviewsCache = { data, lastFetched }
  calls,         \* number of requests received so far
  pc,            \* per request slot: "idle", "await_page", "await_chunks",
                 \* "await_catch", "await_price", "done"
  currentPage,   \* per slot: let currentPage (0 when no run is in flight)
  allReviews,    \* per slot: const allReviews = [] (empty once the handler returned)
  pageLog,       \* per slot: the page requests issued by the run, with outcome
  kind,          \* per slot: the route of the request it holds
  res,           \* per slot: the response sent (status, body), or NoResponse
  writes,        \* every cache write so far: <<[at, data]>>
  changes,       \* number of changes of the upstream dataset so far
  handles,       \* per slot: const { handles } = req.body
  handleChunks,  \* per slot: const handleChunks = []
  queries,       \* per slot: the catalog queries dispatched, in dispatch order
  chunkNodes,    \* per slot: per chunk, the nodes its response held
  settled,       \* per slot: the chunks whose response was handled, in order
  allProducts,   \* per slot: const allProducts = []
  price          \* per slot: the /price request: handle, queries sent, response

reviewVars == <<reviewsCache, currentPage, allReviews, pageLog, writes>>
productVars == <<handles, handleChunks, queries, chunkNodes, settled, allProducts>>
priceVars == <<price>>
envVars == <<now, ticks, changes>>

vars == <<now, ticks, reviewsCache, calls, pc, currentPage, allReviews,
          pageLog, kind, res, writes, changes, handles, handleChunks,
          queries, chunkNodes, settled, allProducts, price>>

-----------------------------------------------------------------------------
(* Bounds of the model *)

MaxReqs == 2      \* requests in flight at the same time
MaxCalls == 3     \* requests over the whole run
MaxTicks == 1     \* clock advances
MaxChanges == 1   \* changes of the upstream dataset
MaxPages == 3     \* pages of a run over a service that always has more

(* Program constants *)

perPage == 100
chunkSize == 50
CACHE_DURATION == 24 * 60 * 60 * 1000

Reqs == 1..MaxReqs

\* One clock advance: the cache duration, so that an entry written before
\* it is exactly 24h old after it.
TickStep == CACHE_DURATION

-----------------------------------------------------------------------------
(* JavaScript values *)

Null == [null |-> TRUE]
Undefined == "undefined"
\* lastFetched: null is written 0 (both are falsy, and Date.now() is never 0)
NullTime == 0

Get(obj, f) == IF f \in DOMAIN obj THEN obj[f] ELSE Undefined

-----------------------------------------------------------------------------
(* The upstream reviews service.  It holds a dataset of `total` records in  *)
(* edition `v`; record i of edition v is RawReview(v, i).                   *)

\* The datasets the service goes through, one after the other.
Totals == <<200, 250, 50, 0>>
UpstreamAt(k) == [total |-> Totals[(k % Len(Totals)) + 1], v |-> 1 + (k % 2)]
upstream == UpstreamAt(changes)

RawReview(v, i) ==
  LET base == [id |-> i,
               rating |-> 1 + ((i + v) % 5),
               published |-> ((i + 2 * v) % 3) # 0,
               created_at |-> v,
               product_handle |-> i % 7,
               product_title |-> "tile",
               title |-> "title",
               body |-> 10 * i + v,
               verified |-> "buyer",
               ip_address |-> "10.0.0.1"]
      withReviewer == IF i % 4 = 0 THEN base
                      ELSE base @@ [reviewer |-> [name |-> "ann", email |-> "a@x"]]
  IN  CASE i % 5 = 0 -> withReviewer
        [] i % 5 = 1 -> withReviewer @@
             [pictures |-> <<[urls |-> [huge |-> "h", compact |-> "c", original |-> "o"]],
                             [hidden |-> TRUE]>>]
        [] OTHER -> withReviewer @@ [pictures |-> <<>>]

\* What the service returns for GET /reviews?per_page=n&page=p
PageOf(up, n, p) ==
  LET first == (p - 1) * n + 1
      last == IF p * n < up.total THEN p * n ELSE up.total
  IN  [k \in 1..(IF last >= first THEN last - first + 1 ELSE 0) |->
         RawReview(up.v, first + k - 1)]

-----------------------------------------------------------------------------
(* FieldSanitizer *)

\* A sanitizer that copies the reviewer object as it came.
sanitizeReviewWholeReviewer(review) ==
  [rating |-> Get(review, "rating"),
   created_at |-> Get(review, "created_at"),
   product_handle |-> Get(review, "product_handle"),
   product_title |-> Get(review, "product_title"),
   title |-> Get(review, "title"),
   body |-> Get(review, "body"),
   reviewer |-> IF "reviewer" \in DOMAIN review THEN review.reviewer
                ELSE [name |-> Undefined],
   pictures |-> IF "pictures" \in DOMAIN review
                THEN [k \in 1..Len(review.pictures) |->
                        LET pic == review.pictures[k]
                        IN  [urls |-> [huge |-> IF "urls" \in DOMAIN pic
                                                THEN Get(pic.urls, "huge") ELSE Undefined,
                                       compact |-> IF "urls" \in DOMAIN pic
                                                   THEN Get(pic.urls, "compact")
                                                   ELSE Undefined]]]
                ELSE <<>>]

\* const sanitizeReview = (review) => ({ ... })
sanitizeReview(review) ==
  [rating |-> Get(review, "rating"),
   created_at |-> Get(review, "created_at"),
   product_handle |-> Get(review, "product_handle"),
   product_title |-> Get(review, "product_title"),
   title |-> Get(review, "title"),
   body |-> Get(review, "body"),
   reviewer |-> [name |-> IF "reviewer" \in DOMAIN review
                          THEN Get(review.reviewer, "name") ELSE Undefined],
   pictures |-> IF "pictures" \in DOMAIN review
                THEN [k \in 1..Len(review.pictures) |->
                        LET pic == review.pictures[k]
                        IN  [urls |-> [huge |-> IF "urls" \in DOMAIN pic
                                                THEN Get(pic.urls, "huge") ELSE Undefined,
                                       compact |-> IF "urls" \in DOMAIN pic
                                                   THEN Get(pic.urls, "compact")
                                                   ELSE Undefined]]]
                ELSE <<>>]

isPublicAnyRating(review) == review.published = TRUE

\* review => review.published === true && review.rating >= 4
isPublic(review) == review.published = TRUE /\ review.rating >= 4

\* const sanitizedReviews = { reviews: allReviews.filter(...).map(sanitizeReview) }
sanitizedReviews(all) ==
  LET kept == SelectSeq(all, isPublic)
  IN  [reviews |-> [i \in 1..Len(kept) |-> sanitizeReview(kept[i])]]

-----------------------------------------------------------------------------
(* GET /fetch *)

NoResponse == [status |-> 0, body |-> Null, via |-> "none"]
FetchError == [status |-> 500, body |-> [error |-> "Failed to fetch reviews"]]

\* reviewsCache.data && reviewsCache.lastFetched &&
\*   (Date.now() - reviewsCache.lastFetched) < CACHE_DURATION
isFresh(cache, t) ==
  /\ cache.data # Null
  /\ cache.lastFetched # NullTime
  /\ (t - cache.lastFetched) < CACHE_DURATION

hasMoreReviewsUntilEmpty(currentReviews) == Len(currentReviews) # 0

\* if (currentReviews.length === 0 || currentReviews.length < perPage)
\*   hasMoreReviews = false
hasMoreReviews(currentReviews) ==
  ~(Len(currentReviews) = 0 \/ Len(currentReviews) < perPage)

catchResponseNoFallback(cache) == FetchError

\* catch (error) { if (reviewsCache.data) return res.json(reviewsCache.data);
\*                 res.status(500).json(...) }
catchResponse(cache) ==
  IF cache.data # Null THEN [status |-> 200, body |-> cache.data] ELSE FetchError

\* axiosInstance.get(url, { params: { per_page: perPage, page: currentPage } })
\* `started` is the time at which the run asked for its first page.
PageRequest(p, started) ==
  [page |-> p, per_page |-> perPage, outcome |-> "pending", count |-> 0, total |-> 0,
   started |-> started]

\* The log with the outcome of its last request: how the request ended, the
\* number of records it returned and the number the service held then.
Answered(log, outcome, count) ==
  [log EXCEPT ![Len(log)] =
     [@ EXCEPT !.outcome = outcome, !.count = count, !.total = upstream.total]]

\* The response, with the path it was produced on.
Sent(response, via) == [status |-> response.status, body |-> response.body, via |-> via]

\* Requests take the lowest slot that holds no request in flight and no
\* chunk callback of an answered request.
Free ==
  {r \in Reqs : /\ pc[r] \in {"idle", "done"}
                /\ \A c \in 1..Len(chunkNodes[r]) : chunkNodes[r][c].state # "pending"}
FreeSlot == IF Free = {} THEN 0 ELSE CHOOSE r \in Free : \A q \in Free : r <= q

\* A request arrives: served from a fresh cache, or the run starts and asks
\* for page 1.
Fetch(r) ==
  /\ r = FreeSlot
  /\ calls < MaxCalls
  /\ calls' = calls + 1
  /\ kind' = [kind EXCEPT ![r] = "fetch"]
  /\ allReviews' = [allReviews EXCEPT ![r] = <<>>]
  /\ IF isFresh(reviewsCache, now)
     THEN /\ res' = [res EXCEPT ![r] =
                       Sent([status |-> 200, body |-> reviewsCache.data], "fresh")]
          /\ pc' = [pc EXCEPT ![r] = "done"]
          /\ currentPage' = [currentPage EXCEPT ![r] = 0]
          /\ pageLog' = [pageLog EXCEPT ![r] = <<>>]
     ELSE /\ res' = [res EXCEPT ![r] = NoResponse]
          /\ pc' = [pc EXCEPT ![r] = "await_page"]
          /\ currentPage' = [currentPage EXCEPT ![r] = 1]
          /\ pageLog' = [pageLog EXCEPT ![r] = <<PageRequest(1, now)>>]
  /\ UNCHANGED <<now, ticks, reviewsCache, writes, changes>>
  /\ UNCHANGED productVars
  /\ UNCHANGED priceVars

\* A loop that stops after its second page, full or not.
ReceivedWithCeiling(r, currentReviews, outcome) ==
  LET all == allReviews[r] \o currentReviews
      log == Answered(pageLog[r], outcome, Len(currentReviews))
  IN  /\ IF hasMoreReviews(currentReviews) /\ currentPage[r] < 2
         THEN /\ allReviews' = [allReviews EXCEPT ![r] = all]
              /\ currentPage' = [currentPage EXCEPT ![r] = @ + 1]
              /\ pageLog' = [pageLog EXCEPT ![r] =
                               Append(log, PageRequest(currentPage[r] + 1, log[1].started))]
              /\ UNCHANGED <<pc, res, reviewsCache, writes>>
         ELSE /\ allReviews' = [allReviews EXCEPT ![r] = <<>>]
              /\ currentPage' = [currentPage EXCEPT ![r] = 0]
              /\ pageLog' = [pageLog EXCEPT ![r] = log]
              /\ reviewsCache' = [data |-> sanitizedReviews(all), lastFetched |-> now]
              /\ writes' = Append(writes, [at |-> now, data |-> sanitizedReviews(all)])
              /\ res' = [res EXCEPT ![r] =
                           Sent([status |-> 200, body |-> sanitizedReviews(all)], "refresh")]
              /\ pc' = [pc EXCEPT ![r] = "done"]
      /\ UNCHANGED <<now, ticks, calls, kind, changes>>
      /\ UNCHANGED productVars
      /\ UNCHANGED priceVars

\* What all the runs in flight have accumulated, were the list shared.
RECURSIVE accumulated(_)
accumulated(n) == IF n = 0 THEN <<>> ELSE accumulated(n - 1) \o allReviews[n]

\* A loop that accumulates into one list shared by all the runs.
ReceivedSharedAccumulator(r, currentReviews, outcome) ==
  LET all == accumulated(MaxReqs) \o currentReviews
      log == Answered(pageLog[r], outcome, Len(currentReviews))
  IN  /\ IF hasMoreReviews(currentReviews)
         THEN /\ allReviews' = [allReviews EXCEPT ![r] = @ \o currentReviews]
              /\ currentPage' = [currentPage EXCEPT ![r] = @ + 1]
              /\ pageLog' = [pageLog EXCEPT ![r] =
                               Append(log, PageRequest(currentPage[r] + 1, log[1].started))]
              /\ UNCHANGED <<pc, res, reviewsCache, writes>>
         ELSE /\ allReviews' = [allReviews EXCEPT ![r] = <<>>]
              /\ currentPage' = [currentPage EXCEPT ![r] = 0]
              /\ pageLog' = [pageLog EXCEPT ![r] = log]
              /\ reviewsCache' = [data |-> sanitizedReviews(all), lastFetched |-> now]
              /\ writes' = Append(writes, [at |-> now, data |-> sanitizedReviews(all)])
              /\ res' = [res EXCEPT ![r] =
                           Sent([status |-> 200, body |-> sanitizedReviews(all)], "refresh")]
              /\ pc' = [pc EXCEPT ![r] = "done"]
      /\ UNCHANGED <<now, ticks, calls, kind, changes>>
      /\ UNCHANGED productVars
      /\ UNCHANGED priceVars

\* A cache write stamped with the time the run asked for its first page.
ReceivedStampsStart(r, currentReviews, outcome) ==
  LET all == allReviews[r] \o currentReviews
      log == Answered(pageLog[r], outcome, Len(currentReviews))
  IN  /\ IF hasMoreReviews(currentReviews)
         THEN /\ allReviews' = [allReviews EXCEPT ![r] = all]
              /\ currentPage' = [currentPage EXCEPT ![r] = @ + 1]
              /\ pageLog' = [pageLog EXCEPT ![r] =
                               Append(log, PageRequest(currentPage[r] + 1, log[1].started))]
              /\ UNCHANGED <<pc, res, reviewsCache, writes>>
         ELSE /\ allReviews' = [allReviews EXCEPT ![r] = <<>>]
              /\ currentPage' = [currentPage EXCEPT ![r] = 0]
              /\ pageLog' = [pageLog EXCEPT ![r] = log]
              /\ reviewsCache' = [data |-> sanitizedReviews(all),
                                  lastFetched |-> pageLog[r][1].started]
              /\ writes' = Append(writes, [at |-> pageLog[r][1].started,
                                           data |-> sanitizedReviews(all)])
              /\ res' = [res EXCEPT ![r] =
                           Sent([status |-> 200, body |-> sanitizedReviews(all)], "refresh")]
              /\ pc' = [pc EXCEPT ![r] = "done"]
      /\ UNCHANGED <<now, ticks, calls, kind, changes>>
      /\ UNCHANGED productVars
      /\ UNCHANGED priceVars

\* The body of the while loop after the await, and what follows the loop.
Received(r, currentReviews, outcome) ==
  LET all == allReviews[r] \o currentReviews
      log == Answered(pageLog[r], outcome, Len(currentReviews))
  IN  /\ IF hasMoreReviews(currentReviews)
         THEN /\ allReviews' = [allReviews EXCEPT ![r] = all]
              /\ currentPage' = [currentPage EXCEPT ![r] = @ + 1]
              /\ pageLog' = [pageLog EXCEPT ![r] =
                               Append(log, PageRequest(currentPage[r] + 1, log[1].started))]
              /\ UNCHANGED <<pc, res, reviewsCache, writes>>
         ELSE /\ allReviews' = [allReviews EXCEPT ![r] = <<>>]
              /\ currentPage' = [currentPage EXCEPT ![r] = 0]
              /\ pageLog' = [pageLog EXCEPT ![r] = log]
              /\ reviewsCache' = [data |-> sanitizedReviews(all), lastFetched |-> now]
              /\ writes' = Append(writes, [at |-> now, data |-> sanitizedReviews(all)])
              /\ res' = [res EXCEPT ![r] =
                           Sent([status |-> 200, body |-> sanitizedReviews(all)], "refresh")]
              /\ pc' = [pc EXCEPT ![r] = "done"]
      /\ UNCHANGED <<now, ticks, calls, kind, changes>>
      /\ UNCHANGED productVars
      /\ UNCHANGED priceVars

\* The page request resolves with the page the service holds.
PageOk(r) ==
  /\ pc[r] = "await_page"
  /\ Received(r, PageOf(upstream, perPage, currentPage[r]), "ok")

\* A full page of a service that has 100 more records for every page asked
FullPage(p) == [k \in 1..perPage |-> RawReview(upstream.v, (p - 1) * perPage + k)]

\* The page request resolves with a full page, whatever the page number.
\* The run is followed up to page MaxPages, where the service runs short.
PageFull(r) ==
  /\ pc[r] = "await_page"
  /\ currentPage[r] < MaxPages
  /\ Received(r, FullPage(currentPage[r]), "full")

\* The page request resolves with a body that has no reviews field:
\* response.data.reviews || []
PageNoReviewsField(r) ==
  /\ pc[r] = "await_page"
  /\ Received(r, <<>>, "noReviews")

\* A catch block that caches what the run had accumulated.
PageFailedKeepsPartial(r) ==
  /\ pc[r] = "await_page"
  /\ pageLog' = [pageLog EXCEPT ![r] = Answered(@, "fail", 0)]
  /\ reviewsCache' = [data |-> sanitizedReviews(allReviews[r]), lastFetched |-> now]
  /\ writes' = Append(writes, [at |-> now, data |-> sanitizedReviews(allReviews[r])])
  /\ res' = [res EXCEPT ![r] = Sent(catchResponse(reviewsCache'), "catch")]
  /\ pc' = [pc EXCEPT ![r] = "done"]
  /\ allReviews' = [allReviews EXCEPT ![r] = <<>>]
  /\ currentPage' = [currentPage EXCEPT ![r] = 0]
  /\ UNCHANGED <<now, ticks, calls, kind, changes>>
  /\ UNCHANGED productVars
  /\ UNCHANGED priceVars

\* A catch block that drops the cache entry.
PageFailedDropsCache(r) ==
  /\ pc[r] = "await_page"
  /\ pageLog' = [pageLog EXCEPT ![r] = Answered(@, "fail", 0)]
  /\ reviewsCache' = [data |-> Null, lastFetched |-> reviewsCache.lastFetched]
  /\ res' = [res EXCEPT ![r] = Sent(catchResponse(reviewsCache), "catch")]
  /\ pc' = [pc EXCEPT ![r] = "done"]
  /\ allReviews' = [allReviews EXCEPT ![r] = <<>>]
  /\ currentPage' = [currentPage EXCEPT ![r] = 0]
  /\ UNCHANGED <<now, ticks, calls, kind, writes, changes>>
  /\ UNCHANGED productVars
  /\ UNCHANGED priceVars

\* A catch block that asks for the failed page once more.
PageFailedRetries(r) ==
  /\ pc[r] = "await_page"
  /\ pageLog' = [pageLog EXCEPT ![r] =
                   Append(Answered(@, "fail", 0), PageRequest(currentPage[r], pageLog[r][1].started))]
  /\ UNCHANGED <<now, ticks, reviewsCache, calls, pc, currentPage, allReviews,
                 kind, res, writes, changes>>
  /\ UNCHANGED productVars
  /\ UNCHANGED priceVars

\* The page request rejects (timeout, network or HTTP error), or resolves
\* with no body so that response.data.reviews throws: control goes to catch.
PageFailed(r) ==
  /\ pc[r] = "await_page"
  /\ pageLog' = [pageLog EXCEPT ![r] = Answered(@, "fail", 0)]
  /\ res' = [res EXCEPT ![r] = Sent(catchResponse(reviewsCache), "catch")]
  /\ pc' = [pc EXCEPT ![r] = "done"]
  /\ allReviews' = [allReviews EXCEPT ![r] = <<>>]
  /\ currentPage' = [currentPage EXCEPT ![r] = 0]
  /\ UNCHANGED <<now, ticks, reviewsCache, calls, kind, writes, changes>>
  /\ UNCHANGED productVars
  /\ UNCHANGED priceVars

-----------------------------------------------------------------------------
(* The upstream catalog service.  Handles are numbered; the catalog holds   *)
(* no product for the handles divisible by 7, and answers a query with the  *)
(* products it holds for the handles asked, highest handle first.           *)

NullStr == "null"

CatalogNode(h) ==
  [id |-> h,
   handle |-> h,
   title |-> "tile",
   featuredImage |-> CASE h % 5 = 0 -> [url |-> ""]
                       [] h % 2 = 0 -> [url |-> "img"]
                       [] OTHER -> Null,
   onlineStoreUrl |-> "url",
   metafields |-> [nodes |->
     CASE h % 3 = 0 -> <<[key |-> "parent_product", value |-> "gid",
                          reference |-> IF h % 2 = 0
                                        THEN [title |-> "parent", onlineStoreUrl |-> "purl"]
                                        ELSE Null]>>
       [] h % 3 = 1 -> <<[key |-> "color", value |-> "red"]>>
       [] OTHER -> <<>>]]

Resolvable(h) == h % 7 # 0

Reverse(xs) == [i \in 1..Len(xs) |-> xs[Len(xs) + 1 - i]]

\* response.data.products.nodes for the query of one chunk
CatalogNodes(handleChunk) ==
  LET found == Reverse(SelectSeq(handleChunk, Resolvable))
  IN  [i \in 1..Len(found) |-> CatalogNode(found[i])]

-----------------------------------------------------------------------------
(* POST /products *)

Range(n) == [i \in 1..n |-> i]

\* The values of req.body.handles that clients send.
Bodies ==
  {[type |-> "undefined"], [type |-> "null"], [type |-> "object"],
   [type |-> "string", text |-> ""], [type |-> "string", text |-> "tile-1"],
   [type |-> "number", value |-> 0], [type |-> "number", value |-> 7]}
  \cup {[type |-> "array", items |-> Range(n)] : n \in {0, 1, 50, 51, 120}}

\* JavaScript truthiness of a handles value
Truthy(h) ==
  CASE h.type \in {"undefined", "null"} -> FALSE
    [] h.type = "string" -> h.text # ""
    [] h.type = "number" -> h.value # 0
    [] OTHER -> TRUE

isArray(h) == h.type = "array"

invalidHandlesFalsyOnly(h) == ~Truthy(h)

\* if (!handles || !Array.isArray(handles)) return res.status(400)...
invalidHandles(h) == ~Truthy(h) \/ ~isArray(h)

Min(a, b) == IF a < b THEN a ELSE b

\* handles.slice(i, j), i and j counted from 0
slice(hs, i, j) == SubSeq(hs, i + 1, Min(j, Len(hs)))

RECURSIVE chunksFromShort(_, _)
chunksFromShort(hs, i) ==
  IF i < Len(hs)
  THEN <<slice(hs, i, i + chunkSize - 1)>> \o chunksFromShort(hs, i + chunkSize)
  ELSE <<>>

RECURSIVE chunksFrom(_, _)
\* for (let i = ...; i < handles.length; i += chunkSize)
\*   handleChunks.push(handles.slice(i, i + chunkSize))
chunksFrom(hs, i) ==
  IF i < Len(hs)
  THEN <<slice(hs, i, i + chunkSize)>> \o chunksFrom(hs, i + chunkSize)
  ELSE <<>>

chunkHandles(hs) == chunksFrom(hs, 0)

\* What the loop over handles.length sees: the items of an array; a value
\* with no length (an object, a number) gives the loop nothing to do.
itemsOf(h) == IF isArray(h) THEN h.items ELSE <<>>

\* allProducts.map(node => ({ handle, title, featuredImage, url, parentProduct }))
toProduct(node) ==
  LET parents == SelectSeq(node.metafields.nodes,
                           LAMBDA m : Get(m, "key") = "parent_product")
      parentMetafield == IF Len(parents) > 0 THEN parents[1] ELSE Null
      imageUrl == IF "featuredImage" \in DOMAIN node /\ node.featuredImage # Null
                  THEN Get(node.featuredImage, "url") ELSE Undefined
  IN  [handle |-> Get(node, "handle"),
       title |-> Get(node, "title"),
       featuredImage |-> IF imageUrl \in {Undefined, NullStr, ""} THEN NullStr
                         ELSE imageUrl,
       url |-> Get(node, "onlineStoreUrl"),
       parentProduct |-> IF /\ "reference" \in DOMAIN parentMetafield
                            /\ parentMetafield.reference # Null
                         THEN [title |-> Get(parentMetafield.reference, "title"),
                               url |-> Get(parentMetafield.reference, "onlineStoreUrl")]
                         ELSE Null]

productsBody(all) == [products |-> [i \in 1..Len(all) |-> toProduct(all[i])]]

BadRequest ==
  [status |-> 400,
   body |-> [error |-> "Invalid request. Please provide an array of product handles."]]
ProductsError ==
  [status |-> 500,
   body |-> [error |-> "An error occurred while fetching products", details |-> "message"]]

Pending == [state |-> "pending", nodes |-> <<>>]

pushNodesFront(all, nodes) == nodes \o all

\* allProducts.push(...response.data.products.nodes)
pushNodes(all, nodes) == all \o nodes

\* A request arrives: rejected, or every chunk's query is dispatched and the
\* handler waits at await Promise.all(...), also when there is no chunk.
Products(r, h) ==
  /\ r = FreeSlot
  /\ calls < MaxCalls
  /\ calls' = calls + 1
  /\ kind' = [kind EXCEPT ![r] = "products"]
  /\ handles' = [handles EXCEPT ![r] = h]
  /\ allProducts' = [allProducts EXCEPT ![r] = <<>>]
  /\ settled' = [settled EXCEPT ![r] = <<>>]
  /\ IF invalidHandles(h)
     THEN /\ res' = [res EXCEPT ![r] = Sent(BadRequest, "validation")]
          /\ pc' = [pc EXCEPT ![r] = "done"]
          /\ handleChunks' = [handleChunks EXCEPT ![r] = <<>>]
          /\ queries' = [queries EXCEPT ![r] = <<>>]
          /\ chunkNodes' = [chunkNodes EXCEPT ![r] = <<>>]
     ELSE LET chunks == chunkHandles(itemsOf(h))
          IN  /\ handleChunks' = [handleChunks EXCEPT ![r] = chunks]
              /\ queries' = [queries EXCEPT ![r] = chunks]
              /\ chunkNodes' = [chunkNodes EXCEPT ![r] = [c \in 1..Len(chunks) |-> Pending]]
              /\ res' = [res EXCEPT ![r] = NoResponse]
              /\ pc' = [pc EXCEPT ![r] = "await_chunks"]
  /\ UNCHANGED envVars
  /\ UNCHANGED reviewVars
  /\ UNCHANGED priceVars

\* One chunk's callback has run to its end.
Settle(r, c, all, outcome) ==
  /\ allProducts' = [allProducts EXCEPT ![r] = all]
  /\ settled' = [settled EXCEPT ![r] = Append(@, c)]
  /\ chunkNodes' = [chunkNodes EXCEPT ![r][c] = outcome]
  /\ UNCHANGED <<calls, kind, handles, handleChunks, queries, res, pc>>
  /\ UNCHANGED envVars
  /\ UNCHANGED reviewVars
  /\ UNCHANGED priceVars

\* Chunk c's query is in flight.  The callbacks of the other chunks go on
\* after one has rejected, and after the catch block has answered.
Awaited(r, c) ==
  /\ kind[r] = "products"
  /\ c \in 1..Len(chunkNodes[r])
  /\ chunkNodes[r][c].state = "pending"

\* The chunk's query resolves with a node list.
ChunkOk(r, c) ==
  /\ Awaited(r, c)
  /\ LET nodes == CatalogNodes(handleChunks[r][c])
     IN  Settle(r, c, pushNodes(allProducts[r], nodes), [state |-> "nodes", nodes |-> nodes])

\* The chunk's query resolves without data.products.nodes (the client reports
\* upstream errors in the response): if (response.data?.products?.nodes) is false.
ChunkNoNodes(r, c) ==
  /\ Awaited(r, c)
  /\ Settle(r, c, allProducts[r], [state |-> "noNodes", nodes |-> <<>>])

\* The chunk's query rejects: the first rejection rejects Promise.all.
ChunkFailed(r, c) ==
  /\ Awaited(r, c)
  /\ chunkNodes' = [chunkNodes EXCEPT ![r][c] = [state |-> "failed", nodes |-> <<>>]]
  /\ pc' = [pc EXCEPT ![r] = IF @ = "await_chunks" THEN "await_catch" ELSE @]
  /\ UNCHANGED <<calls, kind, handles, handleChunks, queries, settled,
                 allProducts, res>>
  /\ UNCHANGED envVars
  /\ UNCHANGED reviewVars
  /\ UNCHANGED priceVars

\* Promise.all has resolved, every callback having run to its end: the
\* handler resumes after the await, maps the nodes and answers.
ProductsResolved(r) ==
  /\ pc[r] = "await_chunks"
  /\ Len(settled[r]) = Len(handleChunks[r])
  /\ res' = [res EXCEPT ![r] =
               Sent([status |-> 200, body |-> productsBody(allProducts[r])], "all")]
  /\ pc' = [pc EXCEPT ![r] = "done"]
  /\ UNCHANGED <<calls, kind, handles, handleChunks, queries, chunkNodes, settled,
                 allProducts>>
  /\ UNCHANGED envVars
  /\ UNCHANGED reviewVars
  /\ UNCHANGED priceVars

\* Promise.all has rejected: the handler resumes in its catch block.
ProductsRejected(r) ==
  /\ pc[r] = "await_catch"
  /\ res' = [res EXCEPT ![r] = Sent(ProductsError, "catch")]
  /\ pc' = [pc EXCEPT ![r] = "done"]
  /\ UNCHANGED <<calls, kind, handles, handleChunks, queries, chunkNodes, settled,
                 allProducts>>
  /\ UNCHANGED envVars
  /\ UNCHANGED reviewVars
  /\ UNCHANGED priceVars

Chunks == 1..3

-----------------------------------------------------------------------------
(* JavaScript numbers of the price path.  A number is an IEEE 754 double:   *)
(* NaN, an infinity, or sign * mantissa * 2^exponent with the mantissa an   *)
(* odd natural below 2^53 written in decimal (or "0", for the two zeros).   *)
(* Naturals of any size are held as their digits in base 2^15, lowest       *)
(* first, with no leading zero digit: 0 is <<>>.                            *)

Base == 2^15

Abs(n) == IF n < 0 THEN -n ELSE n
Sign(n) == IF n < 0 THEN -1 ELSE 1
Max(a, b) == IF a < b THEN b ELSE a

RECURSIVE BigFromInt(_)
BigFromInt(n) == IF n = 0 THEN <<>> ELSE <<n % Base>> \o BigFromInt(n \div Base)

\* The largest member of a set of naturals, 0 for the empty set
Highest(S) == IF S = {} THEN 0 ELSE CHOOSE i \in S : \A j \in S : j <= i

\* The least member of a set of naturals that is not empty
Lowest(S) == CHOOSE i \in S : \A j \in S : i <= j

\* a without its leading zero digits
BigTrim(a) == SubSeq(a, 1, Highest({i \in 1..Len(a) : a[i] # 0}))

\* n digits 0
Zeros(n) == [i \in 1..n |-> 0]

\* The digits lo..hi of the natural with columns[i] * Base^(i - 1) summed,
\* and the carry out of them, for the carry into them: the lower half of
\* the columns first, then the upper half
RECURSIVE Carry(_, _, _, _)
RECURSIVE CarryUpper(_, _, _, _)
CarryJoin(digits, upper) == <<digits \o upper[1], upper[2]>>

CarryUpper(columns, lo, hi, lower) ==
  CarryJoin(lower[1], Carry(columns, lo, hi, lower[2]))

Carry(columns, lo, hi, carry) ==
  CASE lo > hi -> <<<<>>, carry>>
    [] lo = hi -> <<<<(columns[lo] + carry) % Base>>, (columns[lo] + carry) \div Base>>
    [] OTHER ->
         CarryUpper(columns, ((lo + hi) \div 2) + 1, hi,
                    Carry(columns, lo, (lo + hi) \div 2, carry))

\* The natural with columns[i] * Base^(i - 1) summed, plus carry
Carried(digits) == BigTrim(digits[1] \o BigFromInt(digits[2]))
BigFromColumns(columns, carry) == Carried(Carry(columns, 1, Len(columns), carry))

Digit(a, i) == IF i > Len(a) THEN 0 ELSE a[i]

BigAdd(a, b) ==
  CASE a = <<>> -> b
    [] b = <<>> -> a
    [] OTHER ->
         BigFromColumns([i \in 1..Max(Len(a), Len(b)) |-> Digit(a, i) + Digit(b, i)], 0)

\* a - b for a >= b
BigSub(a, b) ==
  IF b = <<>> THEN a
  ELSE BigFromColumns([i \in 1..Len(a) |-> a[i] - Digit(b, i)], 0)

\* -1, 0 or 1 as a is below, equal to or above b of the same length, i
\* being the highest digit in which they differ (0 if there is none)
BigCmpAt(a, b, i) ==
  CASE i = 0 -> 0
    [] i > 0 /\ a[i] < b[i] -> -1
    [] OTHER -> 1

\* -1, 0 or 1 as a is below, equal to or above b
BigCmp(a, b) ==
  CASE Len(a) < Len(b) -> -1
    [] Len(a) > Len(b) -> 1
    [] OTHER -> BigCmpAt(a, b, Highest({i \in 1..Len(a) : a[i] # b[i]}))

\* a * k + carry for k and carry below Base
BigMulSmall(a, k, carry) ==
  IF k = 1 /\ carry = 0 THEN a
  ELSE BigFromColumns([i \in 1..Len(a) |-> a[i] * k], carry)

\* The sum of f[lo], ..., f[hi]
RECURSIVE Sum(_, _, _)
Sum(f, lo, hi) ==
  CASE lo > hi -> 0
    [] lo = hi -> f[lo]
    [] OTHER -> Sum(f, lo, (lo + hi) \div 2) + Sum(f, ((lo + hi) \div 2) + 1, hi)

\* What the products of a digit of a and a digit of b add to the column k
\* of a * b: the low halves of those that meet in it, and the high halves
\* of those that meet in the column below
MulColumn(a, b, k) ==
  Sum([i \in 1..Len(a) |-> IF k + 1 - i \in 1..Len(b) THEN (a[i] * b[k + 1 - i]) % Base ELSE 0],
      1, Len(a))
  + Sum([i \in 1..Len(a) |-> IF k - i \in 1..Len(b) THEN (a[i] * b[k - i]) \div Base ELSE 0],
        1, Len(a))

BigMul(a, b) ==
  IF a = <<>> \/ b = <<>> THEN <<>>
  ELSE BigFromColumns([k \in 1..(Len(a) + Len(b)) |-> MulColumn(a, b, k)], 0)

\* The digits of s, given the highest first, the lowest first
LowestFirst(s) == [i \in 1..Len(s) |-> s[Len(s) + 1 - i]]

\* The digits hi..lo of a \div k, the highest first, and the remainder, for
\* the remainder of the digits above hi: the upper half of the digits first
RECURSIVE DivSmall(_, _, _, _, _)
RECURSIVE DivSmallLower(_, _, _, _, _)
DivSmallJoin(digits, lower) == <<digits \o lower[1], lower[2]>>

DivSmallLower(a, k, lo, hi, upper) ==
  DivSmallJoin(upper[1], DivSmall(a, k, lo, hi, upper[2]))

DivSmall(a, k, lo, hi, rem) ==
  CASE lo > hi -> <<<<>>, rem>>
    [] lo = hi -> <<<<(rem * Base + a[lo]) \div k>>, (rem * Base + a[lo]) % k>>
    [] OTHER ->
         DivSmallLower(a, k, lo, (lo + hi) \div 2,
                       DivSmall(a, k, ((lo + hi) \div 2) + 1, hi, rem))

\* a \div k and a % k for k up to Base
BigDivSmall(a, k) ==
  IF k = 1 \/ a = <<>> THEN a ELSE BigTrim(LowestFirst(DivSmall(a, k, 1, Len(a), 0)[1]))
BigModSmall(a, k) == DivSmall(a, k, 1, Len(a), 0)[2]

BigIsOdd(a) == a # <<>> /\ a[1] % 2 = 1

RECURSIVE BitsOf(_)
BitsOf(n) == IF n = 0 THEN 0 ELSE 1 + BitsOf(n \div 2)

\* The number of binary digits of a
BitLength(a) == IF a = <<>> THEN 0 ELSE 15 * (Len(a) - 1) + BitsOf(a[Len(a)])

RECURSIVE Pow2(_)
Pow2(n) == IF n = 0 THEN 1 ELSE 2 * Pow2(n - 1)

\* a * 2^n
ShiftLeft(a, n) ==
  IF a = <<>> THEN <<>> ELSE Zeros(n \div 15) \o BigMulSmall(a, Pow2(n % 15), 0)

\* a \div 2^n
ShiftRight(a, n) == BigDivSmall(SubSeq(a, (n \div 15) + 1, Len(a)), Pow2(n % 15))

\* base^n for a base up to 16, by squaring
RECURSIVE BigPow(_, _)
BigSquare(a) == BigMul(a, a)
BigPow(base, n) ==
  CASE n <= 7 -> BigFromInt(base ^ n)
    [] n % 2 = 1 -> BigMulSmall(BigSquare(BigPow(base, n \div 2)), base, 0)
    [] OTHER -> BigSquare(BigPow(base, n \div 2))

\* n below 10000 in four decimal digits
FourDigits(n) == SubSeq(ToString(10000 + n), 2, 5)

\* The natural a > 0 in decimal: four digits at a time
RECURSIVE BigDigits(_)
BigDigits(a) ==
  IF Len(a) <= 2 THEN ToString(Digit(a, 1) + Base * Digit(a, 2))
  ELSE BigDigits(BigDivSmall(a, 10000)) \o FourDigits(BigModSmall(a, 10000))

\* The digit a character is in a numeric literal, 99 for any other character
DigitOf(c) ==
  CASE c = "0" -> 0 [] c = "1" -> 1 [] c = "2" -> 2 [] c = "3" -> 3 [] c = "4" -> 4
    [] c = "5" -> 5 [] c = "6" -> 6 [] c = "7" -> 7 [] c = "8" -> 8 [] c = "9" -> 9
    [] c \in {"a", "A"} -> 10 [] c \in {"b", "B"} -> 11 [] c \in {"c", "C"} -> 12
    [] c \in {"d", "D"} -> 13 [] c \in {"e", "E"} -> 14 [] c \in {"f", "F"} -> 15
    [] OTHER -> 99

\* The value of a short string of digits in `base`
RECURSIVE SmallValue(_, _)
SmallValue(s, base) ==
  IF s = "" THEN 0
  ELSE SmallValue(SubSeq(s, 1, Len(s) - 1), base) * base
         + DigitOf(SubSeq(s, Len(s), Len(s)))

\* The natural a string of digits in `base` writes: the two halves of a
\* long string apart
RECURSIVE BigFromDigits(_, _)
BigFromDigits(s, base) ==
  IF Len(s) <= 7 THEN BigFromInt(SmallValue(s, base))
  ELSE BigAdd(BigMul(BigFromDigits(SubSeq(s, 1, Len(s) \div 2), base),
                     BigPow(base, Len(s) - (Len(s) \div 2))),
              BigFromDigits(SubSeq(s, (Len(s) \div 2) + 1, Len(s)), base))

NaN == [kind |-> "NaN", sign |-> 1, mantissa |-> "0", exponent |-> 0]
Infinity(sign) == [kind |-> "Infinity", sign |-> sign, mantissa |-> "0", exponent |-> 0]
Zero(sign) == [kind |-> "number", sign |-> sign, mantissa |-> "0", exponent |-> 0]

\* The number of zeros at the end of the binary digits of n > 0
RECURSIVE ZeroBits(_)
ZeroBits(n) == IF n % 2 = 1 THEN 0 ELSE 1 + ZeroBits(n \div 2)

\* The number of zeros at the end of the binary digits of a, not <<>>
BigZeroBits(a) ==
  15 * (Lowest({i \in 1..Len(a) : a[i] # 0}) - 1)
    + ZeroBits(a[Lowest({i \in 1..Len(a) : a[i] # 0})])

\* The double sign * m * 2^exponent, m > 0 of at most 53 binary digits
Double(sign, m, exponent) ==
  [kind |-> "number", sign |-> sign,
   mantissa |-> BigDigits(ShiftRight(m, BigZeroBits(m))),
   exponent |-> exponent + BigZeroBits(m)]

\* The digit r \div t, for r below t * Base and t with a highest digit of
\* Base \div 2 or more: the estimate from the highest digits of r and t is
\* the digit, or above it by 1 or 2
QuotientEstimate(r, t) ==
  Min(Base - 1, (Digit(r, Len(t) + 1) * Base + Digit(r, Len(t))) \div t[Len(t)])

QuotientBelow(r, t, estimate) ==
  CASE BigCmp(BigMulSmall(t, estimate, 0), r) <= 0 -> estimate
    [] estimate > 0 /\ BigCmp(BigMulSmall(t, estimate - 1, 0), r) <= 0 -> estimate - 1
    [] OTHER -> estimate - 2

QuotientDigit(r, t) == QuotientBelow(r, t, QuotientEstimate(r, t))

\* The digits j..0 of the quotient, the highest first, and the remainder of
\* r by m, for a quotient below Base^(j + 1): long division, d being the
\* digit j
RECURSIVE DivFrom(_, _, _)
RECURSIVE DivDigit(_, _, _, _)
DivJoin(d, lower) == <<<<d>> \o lower[1], lower[2]>>

DivDigit(r, m, j, d) ==
  DivJoin(d, DivFrom(BigSub(r, BigMulSmall(Zeros(j) \o m, d, 0)), m, j - 1))

DivFrom(r, m, j) ==
  IF j < 0 THEN <<<<>>, r>> ELSE DivDigit(r, m, j, QuotientDigit(r, Zeros(j) \o m))

\* The quotient and the remainder of n by m, for a quotient below Base^4:
\* the two are first scaled by 2^k to make the highest digit of m
\* Base \div 2 or more
DivScaled(digits, k) == <<BigTrim(LowestFirst(digits[1])), ShiftRight(digits[2], k)>>
DivMod(n, m) ==
  IF m = <<1>> THEN <<n, <<>>>>
  ELSE DivScaled(DivFrom(ShiftLeft(n, 15 - BitsOf(m[Len(m)])),
                         ShiftLeft(m, 15 - BitsOf(m[Len(m)])), 3),
                 15 - BitsOf(m[Len(m)]))

\* q * 2^exponent rounded to a double, q having at most 53 binary digits and
\* `half` telling whether the part cut off is below, equal to or above half
\* a unit of q: round to nearest, ties to even, overflow to an infinity
Rounded(sign, q, half, exponent) ==
  CASE q = <<>> /\ half <= 0 -> Zero(sign)
    [] q # <<>> /\ (half < 0 \/ (half = 0 /\ ~BigIsOdd(q))) ->
         IF BitLength(q) + exponent > 1024 THEN Infinity(sign)
         ELSE Double(sign, q, exponent)
    [] OTHER ->
         IF BitLength(BigAdd(q, <<1>>)) + exponent > 1024 THEN Infinity(sign)
         ELSE Double(sign, BigAdd(q, <<1>>), exponent)

\* (n / m) * 2^e2 as a double, the quotient being cut at the binary digit
\* 2^(s + e2); one digit higher when the quotient has 54 digits
RECURSIVE RoundAt(_, _, _, _, _)
RECURSIVE RoundCut(_, _, _, _, _, _)
RoundCut(sign, n, m, e2, s, qr) ==
  IF BitLength(qr[1]) > 53 THEN RoundAt(sign, n, m, e2, s + 1)
  ELSE Rounded(sign, qr[1],
               BigCmp(BigMulSmall(qr[2], 2, 0), ShiftLeft(m, Max(s, 0))), s + e2)

RoundAt(sign, n, m, e2, s) ==
  RoundCut(sign, n, m, e2, s, DivMod(ShiftLeft(n, Max(-s, 0)), ShiftLeft(m, Max(s, 0))))

\* (n / m) * 2^e2 as a double, for naturals n > 0 and m > 0: 53 binary
\* digits, fewer below 2^-1022 where the lowest digit is 2^-1074
RoundQuotient(sign, n, m, e2) ==
  IF m = <<1>> /\ BitLength(n) <= 53 /\ e2 >= -1074 /\ BitLength(n) + e2 <= 1024
  THEN Double(sign, n, e2)
  ELSE RoundAt(sign, n, m, e2, Max(BitLength(n) - BitLength(m) - 53, -1074 - e2))

\* The double of a natural
FromBig(sign, n) == IF n = <<>> THEN Zero(sign) ELSE RoundQuotient(sign, n, <<1>>, 0)

\* The double of an integer
Num(n) == FromBig(Sign(n), BigFromInt(Abs(n)))

\* The mantissa of a number
Mantissa(a) == IF a.mantissa = "0" THEN <<>> ELSE BigFromDigits(a.mantissa, 10)

\* a / b
Divide(a, b) ==
  CASE a.kind = "NaN" \/ b.kind = "NaN" -> NaN
    [] a.kind = "Infinity" /\ b.kind = "Infinity" -> NaN
    [] a.kind = "Infinity" -> Infinity(a.sign * b.sign)
    [] b.kind = "Infinity" -> Zero(a.sign * b.sign)
    [] b.mantissa = "0" /\ a.mantissa = "0" -> NaN
    [] b.mantissa = "0" -> Infinity(a.sign * b.sign)
    [] a.mantissa = "0" -> Zero(a.sign * b.sign)
    [] OTHER -> RoundQuotient(a.sign * b.sign, Mantissa(a), Mantissa(b),
                              a.exponent - b.exponent)

\* a * b
Times(a, b) ==
  CASE a.kind = "NaN" \/ b.kind = "NaN" -> NaN
    [] a.kind = "Infinity" \/ b.kind = "Infinity" ->
         IF (a.kind = "number" /\ a.mantissa = "0") \/ (b.kind = "number" /\ b.mantissa = "0")
         THEN NaN ELSE Infinity(a.sign * b.sign)
    [] a.mantissa = "0" \/ b.mantissa = "0" -> Zero(a.sign * b.sign)
    [] OTHER -> RoundQuotient(a.sign * b.sign, BigMul(Mantissa(a), Mantissa(b)), <<1>>,
                              a.exponent + b.exponent)

\* |a| > |b| for finite numbers that are not zero
AbsGreater(a, b) ==
  CASE BitLength(Mantissa(a)) + a.exponent > BitLength(Mantissa(b)) + b.exponent -> TRUE
    [] BitLength(Mantissa(a)) + a.exponent < BitLength(Mantissa(b)) + b.exponent -> FALSE
    [] OTHER -> BigCmp(ShiftLeft(Mantissa(a), Max(a.exponent - b.exponent, 0)),
                       ShiftLeft(Mantissa(b), Max(b.exponent - a.exponent, 0))) > 0

\* a > b: false when either is NaN; the two zeros are equal
Greater(a, b) ==
  CASE a.kind = "NaN" \/ b.kind = "NaN" -> FALSE
    [] a.kind = "Infinity" -> a.sign > 0 /\ ~(b.kind = "Infinity" /\ b.sign > 0)
    [] b.kind = "Infinity" -> b.sign < 0
    [] a.mantissa = "0" -> b.mantissa # "0" /\ b.sign < 0
    [] b.mantissa = "0" -> a.sign > 0
    [] a.sign # b.sign -> a.sign > 0
    [] OTHER -> IF a.sign > 0 THEN AbsGreater(a, b) ELSE AbsGreater(b, a)

(* JavaScript strings of the price path.  A string is the sequence of its   *)
(* UTF-16 code units.  The code units of printable ASCII, and tab, line     *)
(* feed, form feed and carriage return, are held as themselves; every other *)
(* code unit, the backslash and the backquote too, is spelled as a          *)
(* backslash, "u" and four hexadecimal digits: "tr\\u0131m" is the four      *)
(* code units t, r, U+0131, m.                                              *)

\* The number of characters at the head of s that are digits in `base`
LeadingDigits(s, base) ==
  Lowest({i \in 1..(Len(s) + 1) : i > Len(s) \/ DigitOf(SubSeq(s, i, i)) >= base}) - 1

\* s begins with a spelled code unit
IsSpelled(s) ==
  Len(s) >= 6 /\ SubSeq(s, 1, 2) = "\\u" /\ LeadingDigits(SubSeq(s, 3, 6), 16) = 4

\* The code unit spelled at the head of s
SpelledUnit(s) == SmallValue(SubSeq(s, 3, 6), 16)

HexDigits == "0123456789ABCDEF"
HexDigit(n) == SubSeq(HexDigits, n + 1, n + 1)

\* The printable characters of ASCII, from the space (32) to the tilde (126),
\* with a space in the places of the two that are spelled (92 and 96)
Ascii ==
  " !\"#$%&'()*+,-./0123456789:;<=>?@ABCDEFGHIJKLMNOPQRSTUVWXYZ[ ]^_ abcdefghijklmnopqrstuvwxyz{|}~"

\* The spelling of one code unit
SpellUnit(unit) ==
  CASE unit >= 32 /\ unit <= 126 /\ unit \notin {92, 96} ->
         SubSeq(Ascii, unit - 31, unit - 31)
    [] unit = 9 -> "\t"
    [] unit = 10 -> "\n"
    [] unit = 12 -> "\f"
    [] unit = 13 -> "\r"
    [] OTHER ->
         "\\u" \o HexDigit(unit \div 4096) \o HexDigit((unit \div 256) % 16)
         \o HexDigit((unit \div 16) % 16) \o HexDigit(unit % 16)

\* The spelling of one code point: one code unit, or a surrogate pair
Spell(cp) ==
  IF cp < 65536 THEN SpellUnit(cp)
  ELSE SpellUnit(55296 + ((cp - 65536) \div 1024)) \o SpellUnit(56320 + ((cp - 65536) % 1024))

RECURSIVE SpellAll(_)
SpellAll(cps) == IF cps = <<>> THEN "" ELSE Spell(Head(cps)) \o SpellAll(Tail(cps))

\* The code units of WhiteSpace and LineTerminator of ECMAScript: TAB, LF,
\* VT, FF, CR, SP, NBSP, the category Zs, LS, PS and ZWNBSP
WhiteSpaceUnits ==
  {9, 10, 11, 12, 13, 32, 160, 5760, 8232, 8233, 8239, 8287, 12288, 65279} \cup (8192..8202)

\* They as a string holds them: " ", "\t", "\\u000B", "\\u00A0", "\\u2028", ...
WhiteSpace == {SpellUnit(unit) : unit \in WhiteSpaceUnits}

\* String.prototype.trim, as StringToNumber applies it
RECURSIVE trimStart(_)
trimStart(s) ==
  CASE s = "" -> s
    [] s # "" /\ SubSeq(s, 1, 1) \in WhiteSpace -> trimStart(Tail(s))
    [] s # "" /\ IsSpelled(s) /\ SpellUnit(SpelledUnit(s)) \in WhiteSpace ->
         trimStart(SubSeq(s, 7, Len(s)))
    [] OTHER -> s

RECURSIVE trimEnd(_)
trimEnd(s) ==
  CASE s = "" -> s
    [] s # "" /\ SubSeq(s, Len(s), Len(s)) \in WhiteSpace ->
         trimEnd(SubSeq(s, 1, Len(s) - 1))
    [] Len(s) >= 6 /\ IsSpelled(SubSeq(s, Len(s) - 5, Len(s)))
         /\ SpellUnit(SpelledUnit(SubSeq(s, Len(s) - 5, Len(s)))) \in WhiteSpace ->
         trimEnd(SubSeq(s, 1, Len(s) - 6))
    [] OTHER -> s

\* The upper-case form of one character held as itself
upperChar(c) ==
  CASE c = "a" -> "A" [] c = "b" -> "B" [] c = "c" -> "C" [] c = "d" -> "D"
    [] c = "e" -> "E" [] c = "f" -> "F" [] c = "g" -> "G" [] c = "h" -> "H"
    [] c = "i" -> "I" [] c = "j" -> "J" [] c = "k" -> "K" [] c = "l" -> "L"
    [] c = "m" -> "M" [] c = "n" -> "N" [] c = "o" -> "O" [] c = "p" -> "P"
    [] c = "q" -> "Q" [] c = "r" -> "R" [] c = "s" -> "S" [] c = "t" -> "T"
    [] c = "u" -> "U" [] c = "v" -> "V" [] c = "w" -> "W" [] c = "x" -> "X"
    [] c = "y" -> "Y" [] c = "z" -> "Z"
    [] OTHER -> c

\* The simple upper-case mapping of Unicode 17.0 (UnicodeData.txt): the
\* difference between a code point and its upper-case form
upperDelta(cp) ==
  CASE cp >= 97 /\ cp <= 122 -> -32
    [] cp = 181 -> 743
    [] cp >= 224 /\ cp <= 246 -> -32
    [] cp >= 248 /\ cp <= 254 -> -32
    [] cp = 255 -> 121
    [] cp >= 257 /\ cp <= 303 /\ (cp - 257) % 2 = 0 -> -1
    [] cp = 305 -> -232
    [] cp >= 307 /\ cp <= 311 /\ (cp - 307) % 2 = 0 -> -1
    [] cp >= 314 /\ cp <= 328 /\ (cp - 314) % 2 = 0 -> -1
    [] cp >= 331 /\ cp <= 375 /\ (cp - 331) % 2 = 0 -> -1
    [] cp >= 378 /\ cp <= 382 /\ (cp - 378) % 2 = 0 -> -1
    [] cp = 383 -> -300
    [] cp = 384 -> 195
    [] cp >= 387 /\ cp <= 389 /\ (cp - 387) % 2 = 0 -> -1
    [] cp = 392 -> -1
    [] cp = 396 -> -1
    [] cp = 402 -> -1
    [] cp = 405 -> 97
    [] cp = 409 -> -1
    [] cp = 410 -> 163
    [] cp = 414 -> 130
    [] cp >= 417 /\ cp <= 421 /\ (cp - 417) % 2 = 0 -> -1
    [] cp = 424 -> -1
    [] cp = 429 -> -1
    [] cp = 432 -> -1
    [] cp >= 436 /\ cp <= 438 /\ (cp - 436) % 2 = 0 -> -1
    [] cp = 441 -> -1
    [] cp = 445 -> -1
    [] cp = 447 -> 56
    [] cp = 453 -> -1
    [] cp = 454 -> -2
    [] cp = 456 -> -1
    [] cp = 457 -> -2
    [] cp = 459 -> -1
    [] cp = 460 -> -2
    [] cp >= 462 /\ cp <= 476 /\ (cp - 462) % 2 = 0 -> -1
    [] cp = 477 -> -79
    [] cp >= 479 /\ cp <= 495 /\ (cp - 479) % 2 = 0 -> -1
    [] cp = 498 -> -1
    [] cp = 499 -> -2
    [] cp = 501 -> -1
    [] cp >= 505 /\ cp <= 543 /\ (cp - 505) % 2 = 0 -> -1
    [] cp >= 547 /\ cp <= 563 /\ (cp - 547) % 2 = 0 -> -1
    [] cp = 572 -> -1
    [] cp >= 575 /\ cp <= 576 -> 10815
    [] cp = 578 -> -1
    [] cp >= 583 /\ cp <= 591 /\ (cp - 583) % 2 = 0 -> -1
    [] cp = 592 -> 10783
    [] cp = 593 -> 10780
    [] cp = 594 -> 10782
    [] cp = 595 -> -210
    [] cp = 596 -> -206
    [] cp >= 598 /\ cp <= 599 -> -205
    [] cp = 601 -> -202
    [] cp = 603 -> -203
    [] cp = 604 -> 42319
    [] cp = 608 -> -205
    [] cp = 609 -> 42315
    [] cp = 611 -> -207
    [] cp = 613 -> 42280
    [] cp = 614 -> 42308
    [] cp = 616 -> -209
    [] cp = 617 -> -211
    [] cp = 618 -> 42308
    [] cp = 619 -> 10743
    [] cp = 620 -> 42305
    [] cp = 623 -> -211
    [] cp = 625 -> 10749
    [] cp = 626 -> -213
    [] cp = 629 -> -214
    [] cp = 637 -> 10727
    [] cp = 640 -> -218
    [] cp = 642 -> 42307
    [] cp = 643 -> -218
    [] cp = 647 -> 42282
    [] cp = 648 -> -218
    [] cp = 649 -> -69
    [] cp >= 650 /\ cp <= 651 -> -217
    [] cp = 652 -> -71
    [] cp = 658 -> -219
    [] cp = 669 -> 42261
    [] cp = 670 -> 42258
    [] cp = 837 -> 84
    [] cp >= 881 /\ cp <= 883 /\ (cp - 881) % 2 = 0 -> -1
    [] cp = 887 -> -1
    [] cp >= 891 /\ cp <= 893 -> 130
    [] cp = 940 -> -38
    [] cp >= 941 /\ cp <= 943 -> -37
    [] cp >= 945 /\ cp <= 961 -> -32
    [] cp = 962 -> -31
    [] cp >= 963 /\ cp <= 971 -> -32
    [] cp = 972 -> -64
    [] cp >= 973 /\ cp <= 974 -> -63
    [] cp = 976 -> -62
    [] cp = 977 -> -57
    [] cp = 981 -> -47
    [] cp = 982 -> -54
    [] cp = 983 -> -8
    [] cp >= 985 /\ cp <= 1007 /\ (cp - 985) % 2 = 0 -> -1
    [] cp = 1008 -> -86
    [] cp = 1009 -> -80
    [] cp = 1010 -> 7
    [] cp = 1011 -> -116
    [] cp = 1013 -> -96
    [] cp = 1016 -> -1
    [] cp = 1019 -> -1
    [] cp >= 1072 /\ cp <= 1103 -> -32
    [] cp >= 1104 /\ cp <= 1119 -> -80
    [] cp >= 1121 /\ cp <= 1153 /\ (cp - 1121) % 2 = 0 -> -1
    [] cp >= 1163 /\ cp <= 1215 /\ (cp - 1163) % 2 = 0 -> -1
    [] cp >= 1218 /\ cp <= 1230 /\ (cp - 1218) % 2 = 0 -> -1
    [] cp = 1231 -> -15
    [] cp >= 1233 /\ cp <= 1327 /\ (cp - 1233) % 2 = 0 -> -1
    [] cp >= 1377 /\ cp <= 1414 -> -48
    [] cp >= 4304 /\ cp <= 4346 -> 3008
    [] cp >= 4349 /\ cp <= 4351 -> 3008
    [] cp >= 5112 /\ cp <= 5117 -> -8
    [] cp = 7296 -> -6254
    [] cp = 7297 -> -6253
    [] cp = 7298 -> -6244
    [] cp >= 7299 /\ cp <= 7300 -> -6242
    [] cp = 7301 -> -6243
    [] cp = 7302 -> -6236
    [] cp = 7303 -> -6181
    [] cp = 7304 -> 35266
    [] cp = 7545 -> 35332
    [] cp = 7549 -> 3814
    [] cp = 7566 -> 35384
    [] cp >= 7681 /\ cp <= 7829 /\ (cp - 7681) % 2 = 0 -> -1
    [] cp = 7835 -> -59
    [] cp >= 7841 /\ cp <= 7935 /\ (cp - 7841) % 2 = 0 -> -1
    [] cp >= 7936 /\ cp <= 7943 -> 8
    [] cp >= 7952 /\ cp <= 7957 -> 8
    [] cp >= 7968 /\ cp <= 7975 -> 8
    [] cp >= 7984 /\ cp <= 7991 -> 8
    [] cp >= 8000 /\ cp <= 8005 -> 8
    [] cp >= 8017 /\ cp <= 8023 /\ (cp - 8017) % 2 = 0 -> 8
    [] cp >= 8032 /\ cp <= 8039 -> 8
    [] cp >= 8048 /\ cp <= 8049 -> 74
    [] cp >= 8050 /\ cp <= 8053 -> 86
    [] cp >= 8054 /\ cp <= 8055 -> 100
    [] cp >= 8056 /\ cp <= 8057 -> 128
    [] cp >= 8058 /\ cp <= 8059 -> 112
    [] cp >= 8060 /\ cp <= 8061 -> 126
    [] cp >= 8112 /\ cp <= 8113 -> 8
    [] cp = 8126 -> -7205
    [] cp >= 8144 /\ cp <= 8145 -> 8
    [] cp >= 8160 /\ cp <= 8161 -> 8
    [] cp = 8165 -> 7
    [] cp = 8526 -> -28
    [] cp >= 8560 /\ cp <= 8575 -> -16
    [] cp = 8580 -> -1
    [] cp >= 9424 /\ cp <= 9449 -> -26
    [] cp >= 11312 /\ cp <= 11359 -> -48
    [] cp = 11361 -> -1
    [] cp = 11365 -> -10795
    [] cp = 11366 -> -10792
    [] cp >= 11368 /\ cp <= 11372 /\ (cp - 11368) % 2 = 0 -> -1
    [] cp = 11379 -> -1
    [] cp = 11382 -> -1
    [] cp >= 11393 /\ cp <= 11491 /\ (cp - 11393) % 2 = 0 -> -1
    [] cp >= 11500 /\ cp <= 11502 /\ (cp - 11500) % 2 = 0 -> -1
    [] cp = 11507 -> -1
    [] cp >= 11520 /\ cp <= 11557 -> -7264
    [] cp = 11559 -> -7264
    [] cp = 11565 -> -7264
    [] cp >= 42561 /\ cp <= 42605 /\ (cp - 42561) % 2 = 0 -> -1
    [] cp >= 42625 /\ cp <= 42651 /\ (cp - 42625) % 2 = 0 -> -1
    [] cp >= 42787 /\ cp <= 42799 /\ (cp - 42787) % 2 = 0 -> -1
    [] cp >= 42803 /\ cp <= 42863 /\ (cp - 42803) % 2 = 0 -> -1
    [] cp >= 42874 /\ cp <= 42876 /\ (cp - 42874) % 2 = 0 -> -1
    [] cp >= 42879 /\ cp <= 42887 /\ (cp - 42879) % 2 = 0 -> -1
    [] cp = 42892 -> -1
    [] cp >= 42897 /\ cp <= 42899 /\ (cp - 42897) % 2 = 0 -> -1
    [] cp = 42900 -> 48
    [] cp >= 42903 /\ cp <= 42921 /\ (cp - 42903) % 2 = 0 -> -1
    [] cp >= 42933 /\ cp <= 42947 /\ (cp - 42933) % 2 = 0 -> -1
    [] cp >= 42952 /\ cp <= 42954 /\ (cp - 42952) % 2 = 0 -> -1
    [] cp = 42961 -> -1
    [] cp >= 42967 /\ cp <= 42969 /\ (cp - 42967) % 2 = 0 -> -1
    [] cp = 42998 -> -1
    [] cp = 43859 -> -928
    [] cp >= 43888 /\ cp <= 43967 -> -38864
    [] cp >= 65345 /\ cp <= 65370 -> -32
    [] cp >= 66600 /\ cp <= 66639 -> -40
    [] cp >= 66776 /\ cp <= 66811 -> -40
    [] cp >= 66967 /\ cp <= 67003 /\ (cp - 66967) % 2 = 0 -> -39
    [] cp >= 66968 /\ cp <= 66977 -> -39
    [] cp >= 66980 /\ cp <= 66993 -> -39
    [] cp >= 66996 /\ cp <= 67001 -> -39
    [] cp = 67004 -> -39
    [] cp >= 68800 /\ cp <= 68850 -> -64
    [] cp >= 71872 /\ cp <= 71903 -> -32
    [] cp >= 93792 /\ cp <= 93823 -> -32
    [] cp >= 125218 /\ cp <= 125251 -> -34
    [] cp = 411 -> 42561
    [] cp = 612 -> 42343
    [] cp = 7306 -> -1
    [] cp \in {42957, 42959, 42963, 42965, 42971} -> -1
    [] cp >= 68976 /\ cp <= 68997 -> -32
    [] cp >= 93883 /\ cp <= 93907 -> -27
    [] OTHER -> 0

\* The code points whose upper-case form is several code points
\* (SpecialCasing.txt, the mappings without a condition), <<>> for the others
upperSpecial(cp) ==
  CASE cp = 223 -> <<83, 83>>
    [] cp = 329 -> <<700, 78>>
    [] cp = 496 -> <<74, 780>>
    [] cp = 912 -> <<921, 776, 769>>
    [] cp = 944 -> <<933, 776, 769>>
    [] cp = 1415 -> <<1333, 1362>>
    [] cp = 7830 -> <<72, 817>>
    [] cp = 7831 -> <<84, 776>>
    [] cp = 7832 -> <<87, 778>>
    [] cp = 7833 -> <<89, 778>>
    [] cp = 7834 -> <<65, 702>>
    [] cp = 8016 -> <<933, 787>>
    [] cp = 8018 -> <<933, 787, 768>>
    [] cp = 8020 -> <<933, 787, 769>>
    [] cp = 8022 -> <<933, 787, 834>>
    [] cp = 8064 -> <<7944, 921>>
    [] cp = 8065 -> <<7945, 921>>
    [] cp = 8066 -> <<7946, 921>>
    [] cp = 8067 -> <<7947, 921>>
    [] cp = 8068 -> <<7948, 921>>
    [] cp = 8069 -> <<7949, 921>>
    [] cp = 8070 -> <<7950, 921>>
    [] cp = 8071 -> <<7951, 921>>
    [] cp = 8072 -> <<7944, 921>>
    [] cp = 8073 -> <<7945, 921>>
    [] cp = 8074 -> <<7946, 921>>
    [] cp = 8075 -> <<7947, 921>>
    [] cp = 8076 -> <<7948, 921>>
    [] cp = 8077 -> <<7949, 921>>
    [] cp = 8078 -> <<7950, 921>>
    [] cp = 8079 -> <<7951, 921>>
    [] cp = 8080 -> <<7976, 921>>
    [] cp = 8081 -> <<7977, 921>>
    [] cp = 8082 -> <<7978, 921>>
    [] cp = 8083 -> <<7979, 921>>
    [] cp = 8084 -> <<7980, 921>>
    [] cp = 8085 -> <<7981, 921>>
    [] cp = 8086 -> <<7982, 921>>
    [] cp = 8087 -> <<7983, 921>>
    [] cp = 8088 -> <<7976, 921>>
    [] cp = 8089 -> <<7977, 921>>
    [] cp = 8090 -> <<7978, 921>>
    [] cp = 8091 -> <<7979, 921>>
    [] cp = 8092 -> <<7980, 921>>
    [] cp = 8093 -> <<7981, 921>>
    [] cp = 8094 -> <<7982, 921>>
    [] cp = 8095 -> <<7983, 921>>
    [] cp = 8096 -> <<8040, 921>>
    [] cp = 8097 -> <<8041, 921>>
    [] cp = 8098 -> <<8042, 921>>
    [] cp = 8099 -> <<8043, 921>>
    [] cp = 8100 -> <<8044, 921>>
    [] cp = 8101 -> <<8045, 921>>
    [] cp = 8102 -> <<8046, 921>>
    [] cp = 8103 -> <<8047, 921>>
    [] cp = 8104 -> <<8040, 921>>
    [] cp = 8105 -> <<8041, 921>>
    [] cp = 8106 -> <<8042, 921>>
    [] cp = 8107 -> <<8043, 921>>
    [] cp = 8108 -> <<8044, 921>>
    [] cp = 8109 -> <<8045, 921>>
    [] cp = 8110 -> <<8046, 921>>
    [] cp = 8111 -> <<8047, 921>>
    [] cp = 8114 -> <<8122, 921>>
    [] cp = 8115 -> <<913, 921>>
    [] cp = 8116 -> <<902, 921>>
    [] cp = 8118 -> <<913, 834>>
    [] cp = 8119 -> <<913, 834, 921>>
    [] cp = 8124 -> <<913, 921>>
    [] cp = 8130 -> <<8138, 921>>
    [] cp = 8131 -> <<919, 921>>
    [] cp = 8132 -> <<905, 921>>
    [] cp = 8134 -> <<919, 834>>
    [] cp = 8135 -> <<919, 834, 921>>
    [] cp = 8140 -> <<919, 921>>
    [] cp = 8146 -> <<921, 776, 768>>
    [] cp = 8147 -> <<921, 776, 769>>
    [] cp = 8150 -> <<921, 834>>
    [] cp = 8151 -> <<921, 776, 834>>
    [] cp = 8162 -> <<933, 776, 768>>
    [] cp = 8163 -> <<933, 776, 769>>
    [] cp = 8164 -> <<929, 787>>
    [] cp = 8166 -> <<933, 834>>
    [] cp = 8167 -> <<933, 776, 834>>
    [] cp = 8178 -> <<8186, 921>>
    [] cp = 8179 -> <<937, 921>>
    [] cp = 8180 -> <<911, 921>>
    [] cp = 8182 -> <<937, 834>>
    [] cp = 8183 -> <<937, 834, 921>>
    [] cp = 8188 -> <<937, 921>>
    [] cp = 64256 -> <<70, 70>>
    [] cp = 64257 -> <<70, 73>>
    [] cp = 64258 -> <<70, 76>>
    [] cp = 64259 -> <<70, 70, 73>>
    [] cp = 64260 -> <<70, 70, 76>>
    [] cp = 64261 -> <<83, 84>>
    [] cp = 64262 -> <<83, 84>>
    [] cp = 64275 -> <<1348, 1350>>
    [] cp = 64276 -> <<1348, 1333>>
    [] cp = 64277 -> <<1348, 1339>>
    [] cp = 64278 -> <<1358, 1350>>
    [] cp = 64279 -> <<1348, 1341>>
    [] OTHER -> <<>>

\* The upper-case form of one code point, spelled
upperCodePoint(cp) ==
  IF upperSpecial(cp) # <<>> THEN SpellAll(upperSpecial(cp)) ELSE Spell(cp + upperDelta(cp))

\* s begins with a surrogate pair
IsPair(s) ==
  /\ IsSpelled(s) /\ SpelledUnit(s) >= 55296 /\ SpelledUnit(s) <= 56319
  /\ IsSpelled(SubSeq(s, 7, Len(s)))
  /\ SpelledUnit(SubSeq(s, 7, Len(s))) >= 56320 /\ SpelledUnit(SubSeq(s, 7, Len(s))) <= 57343

\* String.prototype.toUpperCase
RECURSIVE toUpperCase(_)
toUpperCase(s) ==
  CASE s = "" -> ""
    [] IsPair(s) ->
         upperCodePoint(65536 + (SpelledUnit(s) - 55296) * 1024
                          + (SpelledUnit(SubSeq(s, 7, Len(s))) - 56320))
           \o toUpperCase(SubSeq(s, 13, Len(s)))
    [] ~IsPair(s) /\ IsSpelled(s) ->
         upperCodePoint(SpelledUnit(s)) \o toUpperCase(SubSeq(s, 7, Len(s)))
    [] OTHER -> upperChar(Head(s)) \o toUpperCase(Tail(s))

\* s without the zeros at its head
StripZeros(s) ==
  SubSeq(s, Lowest({i \in 1..(Len(s) + 1) : i > Len(s) \/ SubSeq(s, i, i) # "0"}), Len(s))

\* An unsigned literal 0x.., 0o.., 0b.. in its base, NaN if it is none
RadixLiteral(digits, base) ==
  IF digits # "" /\ LeadingDigits(digits, base) = Len(digits)
  THEN FromBig(1, BigFromDigits(digits, base)) ELSE NaN

\* sign * digits * 10^exponent for digits with no leading zero: above
\* 10^310 it is an infinity and below 10^-326 a zero
DecimalValue(sign, digits, exponent) ==
  CASE digits = "" -> Zero(sign)
    [] digits # "" /\ Len(digits) + exponent > 310 -> Infinity(sign)
    [] digits # "" /\ Len(digits) + exponent < -325 -> Zero(sign)
    [] digits # "" /\ Len(digits) + exponent <= 310 /\ exponent >= 0 ->
         FromBig(sign, BigMul(BigFromDigits(digits, 10), BigPow(10, exponent)))
    [] OTHER -> RoundQuotient(sign, BigFromDigits(digits, 10), BigPow(10, -exponent), 0)

\* sign * digits * 10^exponent
Decimal(sign, digits, exponent) == DecimalValue(sign, StripZeros(digits), exponent)

\* The value of the digits of an exponent with no leading zero; 10^9 for
\* ten digits or more: a string has fewer than 2^30 characters, so that no
\* digits before the exponent make up for it
ExponentValue(digits) == IF Len(digits) > 9 THEN 1000000000 ELSE SmallValue(digits, 10)

\* The literal with the digits read so far, n2 of them after the point, and
\* the digits of an exponent of sign expSign
SignedExponent(sign, digits, n2, expDigits, expSign) ==
  IF expDigits # "" /\ LeadingDigits(expDigits, 10) = Len(expDigits)
  THEN Decimal(sign, digits, expSign * ExponentValue(StripZeros(expDigits)) - n2)
  ELSE NaN

\* The literal with the digits read so far and what follows them: nothing,
\* or an exponent
ExponentPart(sign, digits, n2, rest) ==
  CASE digits = "" -> NaN
    [] digits # "" /\ rest = "" -> Decimal(sign, digits, -n2)
    [] digits # "" /\ rest # "" /\ (Head(rest) \notin {"e", "E"} \/ Len(rest) = 1) -> NaN
    [] OTHER ->
         SignedExponent(sign, digits, n2,
                        IF SubSeq(rest, 2, 2) \in {"+", "-"}
                        THEN SubSeq(rest, 3, Len(rest)) ELSE Tail(rest),
                        IF SubSeq(rest, 2, 2) = "-" THEN -1 ELSE 1)

\* The literal with its whole digits read and what follows them, the first
\* n2 characters of which are the digits after the point
FractionPart(sign, whole, rest, n2) ==
  ExponentPart(sign, whole \o SubSeq(rest, 1, n2), n2, SubSeq(rest, n2 + 1, Len(rest)))

\* The literal whose first n1 characters are its whole digits
WholePart(sign, s, n1) ==
  IF n1 < Len(s) /\ SubSeq(s, n1 + 1, n1 + 1) = "."
  THEN FractionPart(sign, SubSeq(s, 1, n1), SubSeq(s, n1 + 2, Len(s)),
                    LeadingDigits(SubSeq(s, n1 + 2, Len(s)), 10))
  ELSE ExponentPart(sign, SubSeq(s, 1, n1), 0, SubSeq(s, n1 + 1, Len(s)))

\* An unsigned decimal literal: digits, a fraction, an exponent; or Infinity
DecimalLiteral(s, sign) ==
  IF s = "Infinity" THEN Infinity(sign) ELSE WholePart(sign, s, LeadingDigits(s, 10))

\* StringToNumber of a trimmed string
StringToNumber(s) ==
  CASE s = "" -> Zero(1)
    [] s # "" /\ SubSeq(s, 1, Min(2, Len(s))) \in {"0x", "0X", "0o", "0O", "0b", "0B"} ->
         RadixLiteral(SubSeq(s, 3, Len(s)),
                      CASE SubSeq(s, 2, 2) \in {"x", "X"} -> 16
                        [] SubSeq(s, 2, 2) \in {"o", "O"} -> 8
                        [] OTHER -> 2)
    [] OTHER ->
         DecimalLiteral(IF Head(s) \in {"+", "-"} THEN Tail(s) ELSE s,
                        IF Head(s) = "-" THEN -1 ELSE 1)

\* Number(value) for a metafield value: a string, or undefined
Number(value) ==
  IF value = Undefined THEN NaN ELSE StringToNumber(trimEnd(trimStart(value)))

\* Truthiness of a number: 0 and NaN are falsy.
TruthyNumber(a) == a.kind = "Infinity" \/ (a.kind = "number" /\ a.mantissa # "0")

\* The number an operand of >, / stands for: null is 0.
ToNumber(value) == IF value = Null THEN Zero(1) ELSE value

\* value || ''
orEmpty(value) == IF value \in {Undefined, NullStr, ""} THEN "" ELSE value

\* nodes.reduce((acc, meta) => { acc[meta.key] = meta.value; return acc }, {})
RECURSIVE reduceMetafields(_)
reduceMetafields(nodes) ==
  IF nodes = <<>> THEN [k \in {} |-> ""]
  ELSE LET meta == nodes[Len(nodes)]
       IN  (meta.key :> meta.value) @@ reduceMetafields(SubSeq(nodes, 1, Len(nodes) - 1))

-----------------------------------------------------------------------------
(* PriceDerivationEngine *)

\* A table without its defaults: every other sell unit counts as a pallet.
conversionWithoutDefault(uom, sellUnit, metafields) ==
  IF uom = "SF"
  THEN CASE sellUnit = "SF" -> Num(1)
         [] sellUnit \in {"EA", "SHT"} -> Number(Get(metafields, "sf_ea"))
         [] sellUnit \in {"BX", "SET"} -> Number(Get(metafields, "sf_box"))
         [] OTHER -> Number(Get(metafields, "sf_plt"))
  ELSE Num(1)

\* function calculateConversion(uom, sellUnit, metafields)
calculateConversion(uom, sellUnit, metafields) ==
  IF uom = "" \/ sellUnit = "" THEN Num(1)
  ELSE IF uom = "SF"
       THEN CASE sellUnit = "SF" -> Num(1)
              [] sellUnit \in {"EA", "SHT"} -> Number(Get(metafields, "sf_ea"))
              [] sellUnit \in {"BX", "SET"} -> Number(Get(metafields, "sf_box"))
              [] sellUnit = "PLT" -> Number(Get(metafields, "sf_plt"))
              [] OTHER -> Num(1)
       ELSE Num(1)

\* let totalSf of calculatePricePerSqFt
totalSf(uom, sellUnit, metafields) ==
  IF uom = "SF"
  THEN CASE sellUnit = "SF" -> Num(1)
         [] sellUnit \in {"EA", "SHT"} -> Number(Get(metafields, "sf_ea"))
         [] sellUnit \in {"BX", "SET"} -> Number(Get(metafields, "sf_box"))
         [] sellUnit = "PLT" -> Times(Number(Get(metafields, "sf_box")),
                                      Number(Get(metafields, "bx_plt")))
         [] OTHER -> Num(1)
  ELSE Num(1)

\* return { current: ..., compare: ... } of calculatePricePerSqFt
perTotalSf(priceInfo, sf) ==
  [current |-> IF TruthyNumber(sf) THEN Divide(ToNumber(priceInfo.currentPrice), sf)
               ELSE priceInfo.currentPrice,
   compare |-> IF priceInfo.compareAtPrice # Null
                  /\ TruthyNumber(priceInfo.compareAtPrice)
               THEN Divide(priceInfo.compareAtPrice, sf)
               ELSE Null]

\* function calculatePricePerSqFt(priceInfo, metafields)
calculatePricePerSqFt(priceInfo, metafields) ==
  perTotalSf(priceInfo, totalSf(priceInfo.uom, priceInfo.sellUnit, metafields))

NoNotice == [notice |-> "", subtext |-> "", color |-> "", hasBoldText |-> FALSE]

\* function determineStockStatus(priceInfo)
determineStockStatus(priceInfo) ==
  IF /\ priceInfo.status = "ACTIVE"
     /\ priceInfo.inventory.management = "shopify"
     /\ priceInfo.inventory.policy = "continue"
     /\ priceInfo.inventory.quantity = 0
  THEN [notice |-> "Temporarily", subtext |-> "Oversold", color |-> "#FD8B07",
        hasBoldText |-> TRUE]
  ELSE NoNotice

\* A notice for the first row of the table only.
stockNoticeFirstRowOnly(priceInfo) == determineStockStatus(priceInfo)

\* `Only ${inventory.quantity} left!`
onlyLeft(quantity) == "Only " \o ToString(quantity) \o " left!"

\* function determineStockNotice(priceInfo)
determineStockNotice(priceInfo) ==
  LET status == priceInfo.status
      inventory == priceInfo.inventory
  IN  CASE status = "ACTIVE" ->
             IF inventory.management = "shopify" /\ inventory.policy = "continue"
             THEN IF inventory.quantity = 0
                  THEN [notice |-> "Temporarily", subtext |-> "Oversold",
                        color |-> "#FD8B07", hasBoldText |-> TRUE]
                  ELSE IF inventory.quantity > 0
                       THEN [notice |-> "Low Stock",
                             subtext |-> onlyLeft(inventory.quantity),
                             color |-> "#FD8B07", hasBoldText |-> FALSE]
                       ELSE NoNotice
             ELSE NoNotice
        [] status = "DISCONTINUED" ->
             IF inventory.management = "shopify" /\ inventory.policy = "deny"
             THEN IF inventory.quantity = 0
                  THEN [notice |-> "Discontinued", subtext |-> "Out of Stock",
                        color |-> "#DC3545", hasBoldText |-> FALSE]
                  ELSE IF inventory.quantity > 0
                       THEN [notice |-> "Discontinued",
                             subtext |-> onlyLeft(inventory.quantity),
                             color |-> "#FD8B07", hasBoldText |-> FALSE]
                       ELSE NoNotice
             ELSE NoNotice
        [] status = "CLEARANCE" ->
             IF inventory.management = "shopify" /\ inventory.policy = "deny"
             THEN IF inventory.quantity > 0
                  THEN [notice |-> "", subtext |-> onlyLeft(inventory.quantity),
                        color |-> "#FD8B07", hasBoldText |-> FALSE]
                  ELSE [notice |-> "", subtext |-> "Out of Stock",
                        color |-> "#DC3545", hasBoldText |-> FALSE]
             ELSE NoNotice
        [] OTHER -> NoNotice

\* A mapping that shows an unknown code as it is.
unitDisplayEcho(sellUnit) ==
  CASE sellUnit = "BX" -> [singular |-> "box", plural |-> "boxes"]
    [] sellUnit = "SF" -> [singular |-> "sq.ft", plural |-> "sq.ft"]
    [] sellUnit = "EA" -> [singular |-> "piece", plural |-> "pieces"]
    [] sellUnit = "SHT" -> [singular |-> "sheet", plural |-> "sheets"]
    [] sellUnit = "SET" -> [singular |-> "set", plural |-> "sets"]
    [] sellUnit = "PLT" -> [singular |-> "pallet", plural |-> "pallets"]
    [] OTHER -> [singular |-> sellUnit, plural |-> sellUnit]

\* function determineUnitDisplay(sellUnit)
determineUnitDisplay(sellUnit) ==
  CASE sellUnit = "BX" -> [singular |-> "box", plural |-> "boxes"]
    [] sellUnit = "SF" -> [singular |-> "sq.ft", plural |-> "sq.ft"]
    [] sellUnit = "EA" -> [singular |-> "piece", plural |-> "pieces"]
    [] sellUnit = "SHT" -> [singular |-> "sheet", plural |-> "sheets"]
    [] sellUnit = "SET" -> [singular |-> "set", plural |-> "sets"]
    [] sellUnit = "PLT" -> [singular |-> "pallet", plural |-> "pallets"]
    [] OTHER -> [singular |-> "", plural |-> ""]

\* product.productType.toUpperCase() !== 'TRIM'
notTrim(productType) == toUpperCase(productType) # "TRIM"

\* const priceInfo = { ... }, as it stands before the derived fields are added
basePriceInfo(product, variant, variantMetafields, productMetafields) ==
  [currentPrice |-> variant.price,
   compareAtPrice |-> variant.compareAtPrice,
   onSale |-> Greater(ToNumber(variant.compareAtPrice), ToNumber(variant.price)),
   inventory |-> [quantity |-> variant.inventoryQuantity,
                  management |-> variant.inventoryManagement,
                  policy |-> variant.inventoryPolicy],
   uom |-> toUpperCase(orEmpty(Get(variantMetafields, "uom"))),
   sellUnit |-> toUpperCase(orEmpty(Get(variantMetafields, "sell_unit"))),
   status |-> toUpperCase(orEmpty(Get(productMetafields, "status"))),
   productType |-> toUpperCase(orEmpty(product.productType))]

\* priceInfo.stock, priceInfo.stockNotice and priceInfo.unitDisplay are set
withStock(priceInfo) ==
  priceInfo @@ [stock |-> determineStockStatus(priceInfo),
                stockNotice |-> determineStockNotice(priceInfo),
                unitDisplay |-> determineUnitDisplay(priceInfo.sellUnit)]

\* priceInfo.pricePerSqFt is set, unless the product is trim
withPerSqFt(product, priceInfo, variantMetafields) ==
  withStock(IF notTrim(product.productType)
            THEN priceInfo @@
                   [pricePerSqFt |-> calculatePricePerSqFt(priceInfo, variantMetafields)]
            ELSE priceInfo)

\* priceInfo.conversion is set
withConversion(product, priceInfo, variantMetafields) ==
  withPerSqFt(product,
              priceInfo @@ [conversion |-> calculateConversion(priceInfo.uom,
                                                               priceInfo.sellUnit,
                                                               variantMetafields)],
              variantMetafields)

\* The object given to res.json, from the two metafield maps
priceInfoOf(product, variant, variantMetafields, productMetafields) ==
  withConversion(product,
                 basePriceInfo(product, variant, variantMetafields, productMetafields),
                 variantMetafields)

\* The object given to res.json for a product with a first variant and a
\* productType string.
derivePrice(product, variant) ==
  priceInfoOf(product, variant, reduceMetafields(variant.metafields.nodes),
              reduceMetafields(product.metafields.nodes))

-----------------------------------------------------------------------------
(* The catalog's answers to PRICE_QUERY *)

\* metafields(namespace: "pricelist") of a variant: the codes and the areas
variantMetafieldNodes(uom, sellUnit, areas) ==
  (IF uom = Undefined THEN <<>> ELSE <<[key |-> "uom", value |-> uom]>>)
  \o (IF sellUnit = Undefined THEN <<>> ELSE <<[key |-> "sell_unit", value |-> sellUnit]>>)
  \o areas

\* The area metafields of a variant: a pallet of 50 boxes of 10 sq.ft, the
\* same with another pallet area on file and in other spellings of the
\* numbers, areas that no double holds exactly (0.1, 0.3) with a count
\* written between a no-break space and an em space, areas of zero, and none.
Areas ==
  {<<[key |-> "sf_ea", value |-> "2.5"], [key |-> "sf_box", value |-> "10"],
     [key |-> "sf_plt", value |-> "500"], [key |-> "bx_plt", value |-> "50"]>>,
   <<[key |-> "sf_ea", value |-> "2"], [key |-> "sf_box", value |-> "10.0"],
     [key |-> "sf_plt", value |-> "4e2"], [key |-> "bx_plt", value |-> " 50 "]>>,
   <<[key |-> "sf_ea", value |-> "0.1"], [key |-> "sf_box", value |-> "0.1"],
     [key |-> "sf_plt", value |-> "0.3"], [key |-> "bx_plt", value |-> "\\u00A03\\u2003"]>>,
   <<[key |-> "sf_ea", value |-> "0"], [key |-> "sf_box", value |-> "0"],
     [key |-> "sf_plt", value |-> "0"], [key |-> "bx_plt", value |-> "0"]>>,
   <<>>}

PriceProduct(productType, status, variants) ==
  [id |-> "gid-product", handle |-> "tile", title |-> "Tile",
   productType |-> productType,
   variants |-> [nodes |-> variants],
   metafields |-> [nodes |-> IF status = Undefined THEN <<>>
                             ELSE <<[key |-> "status", value |-> status]>>]]

PriceVariant(amount, compareAtPrice, quantity, management, policy, metafields) ==
  [id |-> "gid-variant", price |-> amount, compareAtPrice |-> compareAtPrice,
   inventoryQuantity |-> quantity, inventoryManagement |-> management,
   inventoryPolicy |-> policy, metafields |-> [nodes |-> metafields]]

Statuses == {Undefined, "active", "ACTIVE", "Discontinued", "clearance", "archived"}
Managements == {"shopify", "SHOPIFY", NullStr}
Policies == {"continue", "deny", "DENY"}
Quantities == {-2, 0, 1, 7}
ProductTypes == {"Tile", "trim", "Trim", "TRIM", "tRiM", "tr\\u0131m", "", NullStr}
Uoms == {Undefined, "sf", "SF", "Sf", "\\u017Ff", "EA"}
SellUnits == {Undefined, "sf", "EA", "sht", "BX", "Bx", "set", "PLT", "CTN"}
Prices == {Num(-5), Num(100), Num(200)}
ComparePrices == {Null, Num(150)}

\* Products that differ in what the stock rules read
StockProducts ==
  {PriceProduct("Tile", status,
     <<PriceVariant(Num(100), Null, quantity, management, policy,
                    variantMetafieldNodes("SF", "BX", <<[key |-> "sf_box", value |-> "10"]>>))>>) :
     status \in Statuses, quantity \in Quantities,
     management \in Managements, policy \in Policies}

\* Products that differ in what the price rules read
PricingProducts ==
  {PriceProduct(productType, "active",
     <<PriceVariant(Num(100), compare, 7, "shopify", "continue",
                    variantMetafieldNodes(uom, sellUnit, areas))>>) :
     productType \in ProductTypes, compare \in ComparePrices,
     uom \in Uoms, sellUnit \in SellUnits, areas \in Areas}

\* Products that differ in the two prices of the variant
SaleProducts ==
  {PriceProduct("Tile", "active",
     <<PriceVariant(variantPrice, compare, 7, "shopify", "continue",
                    variantMetafieldNodes("SF", "BX", <<[key |-> "sf_box", value |-> "10"]>>))>>) :
     variantPrice \in Prices, compare \in ComparePrices}

\* A product with no variant
BareProducts == {PriceProduct("Tile", "active", <<>>)}

PriceProducts == StockProducts \cup PricingProducts \cup SaleProducts \cup BareProducts

\* What client.request(PRICE_QUERY) resolves with
PriceResponses ==
  {[errors |-> "message"], [data |-> [products |-> [nodes |-> <<>>]]]}
  \cup {[data |-> [products |-> [nodes |-> <<product>>]]] : product \in PriceProducts}

PriceHandles == {"slate-tile"}

-----------------------------------------------------------------------------
(* GET /price/:handle *)

NoPrice == [handle |-> "", queries |-> 0, response |-> Null]

NotFound(handle) ==
  [status |-> 404, body |-> [error |-> "Product not found", handle |-> handle]]
PriceError ==
  [status |-> 500,
   body |-> [error |-> "Failed to fetch price information", details |-> "message"]]

\* response.data?.products?.nodes?.[0]
firstProduct(response) ==
  IF "data" \in DOMAIN response /\ Len(response.data.products.nodes) > 0
  THEN response.data.products.nodes[1]
  ELSE Null

\* The handler from the resolved query to the response.  Reading
\* variant.metafields of a missing first variant, and calling toUpperCase
\* on a null productType, throw a TypeError that the catch block answers.
priceResponse(handle, response) ==
  LET product == firstProduct(response)
  IN  IF product = Null THEN NotFound(handle)
      ELSE IF product.variants.nodes = <<>> THEN PriceError
      ELSE IF product.productType = NullStr THEN PriceError
      ELSE [status |-> 200, body |-> derivePrice(product, product.variants.nodes[1])]

\* A request arrives: the query is sent.
Price(r, handle) ==
  /\ r = FreeSlot
  /\ calls < MaxCalls
  /\ calls' = calls + 1
  /\ kind' = [kind EXCEPT ![r] = "price"]
  /\ price' = [price EXCEPT ![r] = [handle |-> handle, queries |-> 1, response |-> Null]]
  /\ res' = [res EXCEPT ![r] = NoResponse]
  /\ pc' = [pc EXCEPT ![r] = "await_price"]
  /\ UNCHANGED envVars
  /\ UNCHANGED reviewVars
  /\ UNCHANGED productVars

\* The query resolves.
PriceAnswered(r, response) ==
  /\ pc[r] = "await_price"
  /\ price' = [price EXCEPT ![r].response = response]
  /\ res' = [res EXCEPT ![r] = Sent(priceResponse(price[r].handle, response), "price")]
  /\ pc' = [pc EXCEPT ![r] = "done"]
  /\ UNCHANGED <<calls, kind>>
  /\ UNCHANGED envVars
  /\ UNCHANGED reviewVars
  /\ UNCHANGED productVars

\* The query rejects: control goes to catch.
PriceRejected(r) ==
  /\ pc[r] = "await_price"
  /\ res' = [res EXCEPT ![r] = Sent(PriceError, "catch")]
  /\ pc' = [pc EXCEPT ![r] = "done"]
  /\ UNCHANGED <<calls, kind, price>>
  /\ UNCHANGED envVars
  /\ UNCHANGED reviewVars
  /\ UNCHANGED productVars

-----------------------------------------------------------------------------
(* Environment *)

Tick ==
  /\ ticks < MaxTicks
  /\ ticks' = ticks + 1
  /\ now' = now + TickStep
  /\ UNCHANGED <<reviewsCache, calls, pc, currentPage, allReviews, pageLog,
                 kind, res, writes, changes>>
  /\ UNCHANGED productVars
  /\ UNCHANGED priceVars

UpstreamChange ==
  /\ changes < MaxChanges
  /\ changes' = changes + 1
  /\ UNCHANGED <<now, ticks, reviewsCache, calls, pc, currentPage, allReviews,
                 pageLog, kind, res, writes>>
  /\ UNCHANGED productVars
  /\ UNCHANGED priceVars

-----------------------------------------------------------------------------

Init ==
  /\ now = 1
  /\ ticks = 0
  /\ reviewsCache = [data |-> Null, lastFetched |-> NullTime]
  /\ calls = 0
  /\ pc = [r \in Reqs |-> "idle"]
  /\ currentPage = [r \in Reqs |-> 0]
  /\ allReviews = [r \in Reqs |-> <<>>]
  /\ pageLog = [r \in Reqs |-> <<>>]
  /\ kind = [r \in Reqs |-> "none"]
  /\ res = [r \in Reqs |-> NoResponse]
  /\ writes = <<>>
  /\ changes = 0
  /\ handles = [r \in Reqs |-> [type |-> "undefined"]]
  /\ handleChunks = [r \in Reqs |-> <<>>]
  /\ queries = [r \in Reqs |-> <<>>]
  /\ chunkNodes = [r \in Reqs |-> <<>>]
  /\ settled = [r \in Reqs |-> <<>>]
  /\ allProducts = [r \in Reqs |-> <<>>]
  /\ price = [r \in Reqs |-> NoPrice]

NextReviews ==
  \/ \E r \in Reqs : Fetch(r)
  \/ \E r \in Reqs : PageOk(r)
  \/ \E r \in Reqs : PageNoReviewsField(r)
  \/ \E r \in Reqs : PageFailed(r)
  \/ Tick
  \/ UpstreamChange

\* /products calls share no state: one slot shows all that one call can do.
NextProducts ==
  \/ \E h \in Bodies : Products(1, h)
  \/ \E c \in Chunks : ChunkOk(1, c)
  \/ \E c \in Chunks : ChunkNoNodes(1, c)
  \/ \E c \in Chunks : ChunkFailed(1, c)
  \/ ProductsResolved(1)
  \/ ProductsRejected(1)

\* /price calls share no state either.
NextPrice ==
  \/ \E handle \in PriceHandles : Price(1, handle)
  \/ \E response \in PriceResponses : PriceAnswered(1, response)
  \/ PriceRejected(1)

\* The inputs of the other routes when all routes run side by side
SideBodies == {[type |-> "array", items |-> Range(51)]}
SideChunks == 1..2
SidePriceResponses ==
  {[data |-> [products |-> [nodes |-> <<PriceProduct(productType, "active",
      <<PriceVariant(Num(100), Null, 0, "shopify", "continue",
                     variantMetafieldNodes("SF", "BX",
                                           <<[key |-> "sf_box", value |-> "10"]>>))>>)>>]]] :
     productType \in {"Tile", "trim"}}

\* Every route, requests of all kinds interleaved, over one upstream dataset
Next ==
  \/ \E r \in Reqs : Fetch(r)
  \/ \E r \in Reqs : PageOk(r)
  \/ \E r \in Reqs : PageNoReviewsField(r)
  \/ \E r \in Reqs : PageFailed(r)
  \/ Tick
  \/ \E r \in Reqs, h \in SideBodies : Products(r, h)
  \/ \E r \in Reqs, c \in SideChunks : ChunkOk(r, c)
  \/ \E r \in Reqs, c \in SideChunks : ChunkNoNodes(r, c)
  \/ \E r \in Reqs, c \in SideChunks : ChunkFailed(r, c)
  \/ \E r \in Reqs : ProductsResolved(r)
  \/ \E r \in Reqs : ProductsRejected(r)
  \/ \E r \in Reqs, handle \in PriceHandles : Price(r, handle)
  \/ \E r \in Reqs, response \in SidePriceResponses : PriceAnswered(r, response)
  \/ \E r \in Reqs : PriceRejected(r)

\* The pagination loop over a service that may keep returning full pages
NextPaging ==
  \/ \E r \in Reqs : Fetch(r)
  \/ \E r \in Reqs : PageOk(r)
  \/ \E r \in Reqs : PageFull(r)
  \/ \E r \in Reqs : PageNoReviewsField(r)
  \/ \E r \in Reqs : PageFailed(r)

\* A page request in flight is answered: it resolves, or it is rejected by
\* the network or by the 5 s timeout of axiosInstance.
Responds(r) == PageFailed(r) \/ PageNoReviewsField(r) \/ PageOk(r) \/ PageFull(r)

\* The reviews path alone, the catalog-lookup path alone, the price path alone.
SpecReviews == Init /\ [][NextReviews]_vars
SpecProducts == Init /\ [][NextProducts]_vars
SpecPrice == Init /\ [][NextPrice]_vars
Spec == Init /\ [][Next]_vars
SpecPaging == Init /\ [][NextPaging]_vars /\ \A r \in Reqs : WF_vars(Responds(r))

-----------------------------------------------------------------------------
(* Properties of the reviews path (SpecReviews) *)

Last(log) == log[Len(log)]

RECURSIVE Flatten(_)
Flatten(seqs) == IF seqs = <<>> THEN <<>> ELSE Head(seqs) \o Flatten(Tail(seqs))

\* The step in which request r is answered from the fresh cache.
ServedFresh(r) == calls' = calls + 1 /\ r = FreeSlot /\ res'[r].via = "fresh"

\* The step in which a page request of r's run fails.
PageFails(r) ==
  pc[r] = "await_page" /\ pc'[r] = "done" /\ Last(pageLog'[r]).outcome = "fail"

\* C1: after a refresh has written the cache, every request that arrives less
\* than 24h after that write issues no page request and is answered with
\* exactly the payload that refresh wrote.
C1_FreshServesThatRefresh ==
  [][\A r \in Reqs :
       ServedFresh(r) =>
         /\ pageLog'[r] = <<>>
         /\ \A i \in 1..Len(writes) :
              (now - writes[i].at < 24 * 60 * 60 * 1000) => res'[r].body = writes[i].data]_vars

\* C2: requests that miss the cache at the same time share one pagination
\* run: at no time are two runs in flight.
C2_SingleFlight == Cardinality({r \in Reqs : pc[r] = "await_page"}) <= 1

\* C3: when a page request fails, the request is answered 200 with the
\* dataset the cache holds at that moment (the last one written, whoever
\* wrote it), and 500 'Failed to fetch reviews' when none was ever written.
C3_FailureFallsBack ==
  [][\A r \in Reqs :
       PageFails(r) =>
         IF writes # <<>>
         THEN res'[r].status = 200 /\ res'[r].body = Last(writes).data
         ELSE res'[r].status = 500
              /\ res'[r].body = [error |-> "Failed to fetch reviews"]]_vars

\* A failed request answered with a dataset that a concurrent request wrote
\* after it had started: no time has passed, so it missed an empty cache.
C3_Witness ==
  \E r \in Reqs : res[r].via = "catch" /\ res[r].status = 200 /\ ticks = 0

\* C4: a run asks for pages 1, 2, 3, ... in order, one at a time, 100 records
\* per page, and asks for nothing after the first page of fewer than 100
\* records; over a dataset of T records it makes T \div 100 + 1 requests.
C4_PagesInOrderUntilShort ==
  \A r \in Reqs :
    LET log == pageLog[r]
    IN  /\ \A i \in 1..Len(log) : log[i].page = i /\ log[i].per_page = 100
        /\ \A i \in 1..(Len(log) - 1) : log[i].outcome = "ok" /\ log[i].count >= 100
        /\ pc[r] = "await_page" => Last(log).outcome = "pending"
        /\ (log # <<>> /\ Last(log).outcome # "pending") => pc[r] = "done"
        /\ (log # <<>> /\ \A i \in 1..Len(log) :
                            log[i].outcome = "ok" /\ log[i].total = log[1].total)
             => /\ Len(log) = (log[1].total \div 100) + 1
                /\ \A i \in 1..Len(log) :
                     log[i].count = Min(100, log[1].total - 100 * (i - 1))

\* A run over 250 records: three requests, of 100, 100 and 50 records.
C4_Witness ==
  \E r \in Reqs :
    /\ pc[r] = "done" /\ Len(pageLog[r]) = 3
    /\ \A i \in 1..3 : pageLog[r][i].outcome = "ok"
    /\ <<pageLog[r][1].count, pageLog[r][2].count, pageLog[r][3].count>> = <<100, 100, 50>>

\* The upstream record a public review was made from (the body of a review
\* names its record).
SourceOf(c) == RawReview(c.body % 10, c.body \div 10)

\* The payloads the cache holds and the responses carry.
Payloads ==
  (IF reviewsCache.data # Null THEN {reviewsCache.data} ELSE {})
  \cup {res[r].body : r \in {q \in Reqs : kind[q] = "fetch" /\ res[q].status = 200}}

\* C5: every review in the cache and in every response comes from an
\* upstream record with published = true and rating >= 4.
C5_OnlyPublishedFourStars ==
  \A payload \in Payloads :
    \A i \in 1..Len(payload.reviews) :
      LET src == SourceOf(payload.reviews[i])
      IN  src.published = TRUE /\ src.rating >= 4 /\ payload.reviews[i].rating = src.rating

\* A stale answer with reviews in it, from a dataset that also holds
\* unpublished and low-rated records.
C5_Witness ==
  \E r \in Reqs :
    /\ res[r].via = "catch" /\ res[r].status = 200
    /\ Len(res[r].body.reviews) > 0
    /\ \E i \in 1..50 : ~RawReview(1, i).published
    /\ \E i \in 1..50 : RawReview(1, i).rating < 4

\* C6: a failed page request leaves the cache entry as it was; what the run
\* had accumulated is neither written nor returned.
C6_FailureLeavesCache ==
  [][\A r \in Reqs :
       PageFails(r) =>
         /\ reviewsCache' = reviewsCache
         /\ writes' = writes
         /\ res'[r].status = 200 => res'[r].body = reviewsCache.data]_vars

\* A run that fails after a page of 100 records had been accumulated.
C6_Witness ==
  \E r \in Reqs :
    /\ pc[r] = "done" /\ Len(pageLog[r]) >= 2
    /\ pageLog[r][1].count = 100
    /\ Last(pageLog[r]).outcome = "fail"

\* The record with one more field, or with another value for a field it has
With(review, field, value) == (field :> value) @@ review

\* Raw records that agree with `review` on every whitelisted field and differ
\* in one that is not whitelisted.
OffListVariants(review) ==
  {With(review, "id", review.id + 1000),
   With(review, "ip_address", "10.9.9.9"),
   With(review, "verified", "nothing"),
   With(review, "published", ~review.published),
   With(review, "internal_note", "secret")}
  \cup (IF "reviewer" \in DOMAIN review
        THEN {With(review, "reviewer", With(review.reviewer, "email", "other@x")),
              With(review, "reviewer", With(review.reviewer, "phone", "555"))}
        ELSE {With(review, "reviewer", [email |-> "other@x"])})
  \cup (IF "pictures" \in DOMAIN review /\ Len(review.pictures) > 0
        THEN {With(review, "pictures",
                   [k \in 1..Len(review.pictures) |->
                      IF "urls" \in DOMAIN review.pictures[k]
                      THEN With(review.pictures[k], "urls",
                                With(review.pictures[k].urls, "original", "elsewhere"))
                      ELSE With(review.pictures[k], "hidden", FALSE)])}
        ELSE {})

PublicFields ==
  {"rating", "created_at", "product_handle", "product_title", "title", "body",
   "reviewer", "pictures"}

\* C20: a public record depends on the whitelisted fields of its source only
\* (rating, created_at, product_handle, product_title, title, body,
\* reviewer.name, each picture's urls.huge and urls.compact): a source that
\* differs in any other field gives the same public record, and the records
\* in the cache and in the responses have the whitelisted fields and no other.
C20_OnlyWhitelistedFields ==
  \A payload \in Payloads :
    \A i \in 1..Len(payload.reviews) :
      LET public == payload.reviews[i]
      IN  /\ DOMAIN public = PublicFields
          /\ DOMAIN public.reviewer = {"name"}
          /\ \A k \in 1..Len(public.pictures) :
               /\ DOMAIN public.pictures[k] = {"urls"}
               /\ DOMAIN public.pictures[k].urls = {"huge", "compact"}
          /\ \A other \in OffListVariants(SourceOf(public)) :
               sanitizeReview(other) = public

\* The cache holds a review whose source has a reviewer e-mail, an IP
\* address and a picture with an original URL.
C20_Witness ==
  /\ reviewsCache.data # Null
  /\ \E i \in 1..Len(reviewsCache.data.reviews) :
       LET src == SourceOf(reviewsCache.data.reviews[i])
       IN  /\ "reviewer" \in DOMAIN src /\ "email" \in DOMAIN src.reviewer
           /\ "pictures" \in DOMAIN src /\ Len(src.pictures) > 0
           /\ "original" \in DOMAIN src.pictures[1].urls
           /\ "ip_address" \in DOMAIN src

\* The step in which a page of r's run arrives without its reviews field.
PageLacksField(r) ==
  /\ pc[r] = "await_page"
  /\ pageLog'[r][Len(pageLog[r])].outcome = "noReviews"

\* C22: a page that arrives without the reviews field is an upstream
\* failure: the run ends there, the cache entry stays as it was, and the
\* request is answered with the cached dataset if there is one and with an
\* error if not; the page is not taken for an empty last page.
C22_MissingFieldIsFailure ==
  [][\A r \in Reqs :
       PageLacksField(r) =>
         /\ pc'[r] = "done"
         /\ reviewsCache' = reviewsCache
         /\ writes' = writes
         /\ IF reviewsCache.data # Null
            THEN res'[r].status = 200 /\ res'[r].body = reviewsCache.data
            ELSE res'[r].status = 500]_vars

\* The dataset the service held when it reported `total` records.
DatasetOf(total) ==
  UpstreamAt(CHOOSE k \in 0..(Len(Totals) - 1) : Totals[k + 1] = total)

\* The records each page request of a run brought, as the service sent them.
PagesOf(log) ==
  [i \in 1..Len(log) |->
     IF log[i].outcome = "ok" THEN PageOf(DatasetOf(log[i].total), 100, log[i].page)
     ELSE <<>>]

\* The pages in page order, the published records of four stars and more
\* kept in that order, each made public.
ResultOf(log) ==
  LET kept == SelectSeq(Flatten(PagesOf(log)),
                        LAMBDA raw : raw.published = TRUE /\ raw.rating >= 4)
  IN  [reviews |-> [i \in 1..Len(kept) |-> sanitizeReview(kept[i])]]

\* The step in which r's run ends with a cache write.
Refreshes(r) == pc[r] = "await_page" /\ res'[r].via = "refresh"

AllPagesOk(log) == \A i \in 1..Len(log) : log[i].outcome = "ok"

\* C23: a run whose page requests all succeed writes to the cache, and
\* answers with, the records of its pages 1..k in page order, filtered
\* (published, rating >= 4) and then sanitized; the answer is the payload
\* written, and lastFetched is the time of the write, not of the run's start.
C23_CompleteRunWritesItsPages ==
  [][\A r \in Reqs :
       (Refreshes(r) /\ AllPagesOk(pageLog'[r])) =>
         /\ reviewsCache' = [data |-> ResultOf(pageLog'[r]), lastFetched |-> now]
         /\ writes' = Append(writes, [at |-> now, data |-> ResultOf(pageLog'[r])])
         /\ res'[r].status = 200
         /\ res'[r].body = reviewsCache'.data]_vars

\* A run of three pages over 250 records that began before the clock
\* advanced and wrote after: the entry bears the later time.
C23_Witness ==
  \E r \in Reqs :
    /\ res[r].via = "refresh" /\ Len(pageLog[r]) = 3 /\ AllPagesOk(pageLog[r])
    /\ reviewsCache.data = res[r].body
    /\ Len(reviewsCache.data.reviews) > 0
    /\ pageLog[r][1].started < reviewsCache.lastFetched
    /\ reviewsCache.lastFetched = now

\* C25: the accumulator of a run is its own: with refreshes in flight side
\* by side, the cache is changed only by a run that ends, which writes the
\* whole filtered result of its own pages and none of another run's, and
\* answers with that result; so the cache payload is unset or the result of
\* one run.
C25_AccumulatorIsPrivate ==
  [][/\ \A r \in Reqs :
          Refreshes(r) =>
            /\ reviewsCache'.data = ResultOf(pageLog'[r])
            /\ res'[r].body = ResultOf(pageLog'[r])
     /\ reviewsCache' # reviewsCache => \E r \in Reqs : Refreshes(r)
     /\ reviewsCache'.data # Null => reviewsCache'.data = Last(writes').data]_vars

\* Two runs that were in flight side by side (no time has passed, so the
\* second began before the first wrote) ended with different results; the
\* cache holds one of them.
C25_Witness ==
  \E r, q \in Reqs :
    /\ res[r].via = "refresh" /\ res[q].via = "refresh"
    /\ AllPagesOk(pageLog[r]) /\ AllPagesOk(pageLog[q])
    /\ ticks = 0
    /\ res[r].body # res[q].body
    /\ Len(res[r].body.reviews) > 0 /\ Len(res[q].body.reviews) > 0
    /\ reviewsCache.data = res[q].body

-----------------------------------------------------------------------------
(* Properties of the catalog-lookup path (SpecProducts) *)

ProductCalls == {r \in Reqs : kind[r] = "products"}

\* C7: a handles value that is missing or no array is answered 400, and no
\* catalog query is dispatched for it.
C7_RejectsNonArray ==
  \A r \in ProductCalls :
    handles[r].type # "array" =>
      pc[r] = "done" /\ res[r].status = 400 /\ queries[r] = <<>>

\* A truthy value that is no array, rejected.
C7_Witness ==
  \E r \in ProductCalls :
    handles[r].type \in {"object", "number", "string"} /\ Truthy(handles[r])
    /\ res[r].status = 400

\* C8: n handles are asked in ceil(n / 50) queries, all dispatched before any
\* response is handled; every query has from 1 to 50 handles and the queries,
\* in dispatch order, make up the input.
C8_ChunksCoverInput ==
  \A r \in ProductCalls :
    handles[r].type = "array" =>
      LET n == Len(handles[r].items)
      IN  /\ Len(queries[r]) = (n + 49) \div 50
          /\ \A k \in 1..Len(queries[r]) :
               Len(queries[r][k]) >= 1 /\ Len(queries[r][k]) <= 50
          /\ Flatten(queries[r]) = handles[r].items

\* 120 handles: three queries in flight and no response handled yet.
C8_Witness ==
  \E r \in ProductCalls :
    /\ handles[r].type = "array" /\ Len(handles[r].items) = 120
    /\ Len(queries[r]) = 3 /\ settled[r] = <<>> /\ pc[r] = "await_chunks"

\* C9: a product list is sent only if every chunk query succeeded, that is,
\* resolved with a node list.
C9_AllOrNothing ==
  \A r \in ProductCalls :
    res[r].status = 200 =>
      \A c \in 1..Len(chunkNodes[r]) : chunkNodes[r][c].state = "nodes"

AllChunksOk(r) ==
  /\ res[r].status = 200
  /\ \A c \in 1..Len(chunkNodes[r]) : chunkNodes[r][c].state = "nodes"

\* C10: when every chunk query succeeds, the product list has one entry per
\* node of every response: the nodes of a response together and in the order
\* the response gave them, the responses in the order they were handled.
C10_MergeInCompletionOrder ==
  \A r \in ProductCalls :
    AllChunksOk(r) =>
      LET nodes == Flatten([i \in 1..Len(settled[r]) |-> chunkNodes[r][settled[r][i]].nodes])
      IN  /\ Len(settled[r]) = Len(chunkNodes[r])
          /\ res[r].body.products = [i \in 1..Len(nodes) |-> toProduct(nodes[i])]

\* Three chunks answered out of dispatch order: the list is in neither the
\* order of the input nor the order of the chunks.
C10_Witness ==
  \E r \in ProductCalls :
    /\ AllChunksOk(r)
    /\ Len(settled[r]) = 3 /\ settled[r][1] > settled[r][2]
    /\ res[r].body.products[1].handle > 50

-----------------------------------------------------------------------------
(* Properties of the price path (SpecPrice) *)

\* The /price calls whose query resolved and which were answered.
PriceCalls == {r \in Reqs : kind[r] = "price" /\ res[r].via = "price"}

\* The PriceInfos sent so far.
PriceInfos == {res[r].body : r \in {q \in PriceCalls : res[q].status = 200}}

\* The product and the variant a PriceInfo was derived from.
ProductOf(r) == firstProduct(price[r].response)
VariantOf(r) == ProductOf(r).variants.nodes[1]

DerivedFields == {"conversion", "stock", "stockNotice", "unitDisplay"}

\* C11: a query that returns no product, or a product with no variant, is
\* answered 404; every other answer is an error or a PriceInfo that has all
\* its derived fields.
C11_NotFoundOrComplete ==
  \A r \in PriceCalls :
    LET product == ProductOf(r)
    IN  IF product = Null \/ product.variants.nodes = <<>>
        THEN res[r].status = 404
        ELSE /\ res[r].status \in {200, 500}
             /\ res[r].status = 200 =>
                  /\ DerivedFields \subseteq DOMAIN res[r].body
                  /\ toUpperCase(product.productType) # "TRIM"
                       => "pricePerSqFt" \in DOMAIN res[r].body

IsZero(x) == x.kind = "number" /\ x.mantissa = "0"

\* The price per base unit the rule gives: price / factor, and the raw price
\* when the factor is zero.
PerBaseUnit(amount, factor) == IF IsZero(factor) THEN amount ELSE Divide(amount, factor)

\* C12: in every PriceInfo of a non-trim product, pricePerBaseUnit.current is
\* currentPrice divided by the conversion factor of that PriceInfo (the raw
\* price when the factor is zero), and pricePerBaseUnit.compare follows the
\* same rule from the compare-at price when there is one.
C12_PerBaseUnitIsPriceOverFactor ==
  \A info \in PriceInfos :
    "pricePerSqFt" \in DOMAIN info =>
      /\ info.pricePerSqFt.current = PerBaseUnit(info.currentPrice, info.conversion)
      /\ info.compareAtPrice # Null =>
           info.pricePerSqFt.compare = PerBaseUnit(info.compareAtPrice, info.conversion)

\* The answered calls that carry a PriceInfo.
Priced == {r \in PriceCalls : res[r].status = 200}

\* "trim" in every mix of upper and lower case
TrimSpellings ==
  {t \o r \o i \o m : t \in {"t", "T"}, r \in {"r", "R"}, i \in {"i", "I"}, m \in {"m", "M"}}

\* C13: a PriceInfo has no pricePerBaseUnit exactly when the product's
\* productType is the trim category in any case; for every other productType
\* the field is there. The code upper-cases the productType, and so takes
\* for trim a type that is not a case spelling of it: "tr\u0131m", written
\* with a dotless i, becomes "TRIM".
C13_TrimHasNoPerBaseUnit ==
  \A r \in Priced :
    ("pricePerSqFt" \notin DOMAIN res[r].body) <=> (ProductOf(r).productType \in TrimSpellings)

Warn == "#FD8B07"
Danger == "#DC3545"

OnlyLeftText(quantity) ==
  CASE quantity = 1 -> "Only 1 left!"
    [] quantity = 7 -> "Only 7 left!"
    [] OTHER -> "Only " \o ToString(quantity) \o " left!"

Notice(notice, subtext, color, emphasized) ==
  [notice |-> notice, subtext |-> subtext, color |-> color, hasBoldText |-> emphasized]

\* C14: with tracked inventory ('shopify') the stock notice follows the six
\* rows of the decision table, for every quantity; only the first row is
\* emphasized.
C14_StockTable ==
  \A info \in PriceInfos :
    LET status == info.status
        policy == info.inventory.policy
        qty == info.inventory.quantity
        notice == info.stockNotice
    IN  info.inventory.management = "shopify" =>
          /\ (status = "ACTIVE" /\ policy = "continue" /\ qty = 0)
               => notice = Notice("Temporarily", "Oversold", Warn, TRUE)
          /\ (status = "ACTIVE" /\ policy = "continue" /\ qty > 0)
               => notice = Notice("Low Stock", OnlyLeftText(qty), Warn, FALSE)
          /\ (status = "DISCONTINUED" /\ policy = "deny" /\ qty = 0)
               => notice = Notice("Discontinued", "Out of Stock", Danger, FALSE)
          /\ (status = "DISCONTINUED" /\ policy = "deny" /\ qty > 0)
               => notice = Notice("Discontinued", OnlyLeftText(qty), Warn, FALSE)
          /\ (status = "CLEARANCE" /\ policy = "deny" /\ qty > 0)
               => notice = Notice("", OnlyLeftText(qty), Warn, FALSE)
          /\ (status = "CLEARANCE" /\ policy = "deny" /\ qty = 0)
               => notice = Notice("", "Out of Stock", Danger, FALSE)

\* A discontinued product with 7 pieces left.
C14_Witness ==
  \E info \in PriceInfos :
    /\ info.status = "DISCONTINUED" /\ info.inventory.management = "shopify"
    /\ info.inventory.policy = "deny" /\ info.inventory.quantity = 7
    /\ info.stockNotice.subtext = "Only 7 left!"

\* The rows of the decision table
TableRow(info) ==
  /\ info.inventory.management = "shopify"
  /\ info.inventory.quantity >= 0
  /\ \/ info.status = "ACTIVE" /\ info.inventory.policy = "continue"
     \/ info.status = "DISCONTINUED" /\ info.inventory.policy = "deny"
     \/ info.status = "CLEARANCE" /\ info.inventory.policy = "deny"

\* C15: outside the six rows of the table (untracked inventory, a policy that
\* does not go with the status, an unknown status, a negative quantity) the
\* stock notice is empty and not emphasized.
C15_NoNoticeOutsideTable ==
  \A info \in PriceInfos :
    ~TableRow(info) => info.stockNotice = Notice("", "", "", FALSE)

\* The area metafield the table names for a sell unit of an SF product
AreaKey(sellUnit) ==
  CASE sellUnit \in {"EA", "SHT"} -> "sf_ea"
    [] sellUnit \in {"BX", "SET"} -> "sf_box"
    [] sellUnit = "PLT" -> "sf_plt"
    [] OTHER -> "none"

\* C16: the conversion factor is the area metafield the table names for the
\* pairs SF/EA, SF/SHT, SF/BX, SF/SET, SF/PLT, and 1 for SF/SF and for every
\* other pair (another uom, an unknown sell unit, an empty code).
C16_ConversionTable ==
  \A r \in Priced :
    LET info == res[r].body
        metafields == reduceMetafields(VariantOf(r).metafields.nodes)
        key == AreaKey(info.sellUnit)
    IN  IF info.uom = "SF" /\ key # "none"
        THEN key \in DOMAIN metafields => info.conversion = Number(metafields[key])
        ELSE info.conversion = Num(1)

\* A pallet of an SF product: the factor is the pallet area on file.
C16_Witness ==
  \E info \in PriceInfos :
    info.uom = "SF" /\ info.sellUnit = "PLT" /\ info.conversion = Num(400)

\* C17: the unit label is a fixed mapping of the upper-cased sell-unit code;
\* every code outside the six of the table, the empty one too, gives two
\* empty strings.
C17_UnitDisplayTable ==
  \A r \in Priced :
    LET raw == Get(reduceMetafields(VariantOf(r).metafields.nodes), "sell_unit")
        label == res[r].body.unitDisplay
    IN  CASE raw \in {"BX", "bx", "Bx", "bX"} -> label = [singular |-> "box", plural |-> "boxes"]
          [] raw \in {"SF", "sf"} -> label = [singular |-> "sq.ft", plural |-> "sq.ft"]
          [] raw \in {"EA", "ea"} -> label = [singular |-> "piece", plural |-> "pieces"]
          [] raw \in {"SHT", "sht"} -> label = [singular |-> "sheet", plural |-> "sheets"]
          [] raw \in {"SET", "set"} -> label = [singular |-> "set", plural |-> "sets"]
          [] raw \in {"PLT", "plt"} -> label = [singular |-> "pallet", plural |-> "pallets"]
          [] OTHER -> label = [singular |-> "", plural |-> ""]

\* A code that is not in the table.
C17_Witness ==
  \E r \in Priced :
    /\ res[r].body.sellUnit = "CTN"
    /\ res[r].body.unitDisplay = [singular |-> "", plural |-> ""]

-----------------------------------------------------------------------------
(* Properties of all routes side by side (Spec) *)

\* The cache entry is empty, or it is what the last write put there.
WholeEntry(cache, log) ==
  \/ cache = [data |-> Null, lastFetched |-> NullTime]
  \/ /\ log # <<>>
     /\ cache = [data |-> Last(log).data, lastFetched |-> Last(log).at]
     /\ cache.data # Null /\ cache.lastFetched # NullTime

\* C18: whatever the requests and their interleaving, the cache entry is
\* never deleted and never changed in part: once it holds a dataset it holds
\* one in every later state, and payload and lastFetched are both unset or
\* both set by one write.
C18_CacheNeverDeleted ==
  [][/\ reviewsCache.data # Null => reviewsCache'.data # Null
     /\ WholeEntry(reviewsCache, writes)
     /\ WholeEntry(reviewsCache', writes')]_vars

\* The cache holds a dataset after a refresh has failed and a request of
\* another route has been answered.
C18_Witness ==
  /\ reviewsCache.data # Null
  /\ \E r \in Reqs : kind[r] = "fetch" /\ res[r].via = "catch"
  /\ \E r \in Reqs : kind[r] \in {"products", "price"} /\ pc[r] = "done"

\* C19: no upstream call is made twice: a run asks for each page number at
\* most once and for nothing after a failed page request; a /products call
\* sends one query per chunk; a /price call sends one query.
C19_NoRetries ==
  \A r \in Reqs :
    /\ \A i, j \in 1..Len(pageLog[r]) : pageLog[r][i].page = pageLog[r][j].page => i = j
    /\ \A i \in 1..Len(pageLog[r]) :
         pageLog[r][i].outcome = "fail" => i = Len(pageLog[r]) /\ pc[r] # "await_page"
    /\ kind[r] = "products" => queries[r] = handleChunks[r]
    /\ kind[r] = "products" =>
         \A i, j \in 1..Len(queries[r]) : queries[r][i] = queries[r][j] => i = j
    /\ kind[r] = "price" => price[r].queries = 1

\* A run that failed on its second page, next to a /products call whose
\* second chunk failed.
C19_Witness ==
  /\ \E r \in Reqs :
       /\ kind[r] = "fetch" /\ pc[r] = "done"
       /\ Len(pageLog[r]) = 2 /\ pageLog[r][2].outcome = "fail"
  /\ \E r \in Reqs :
       /\ kind[r] = "products" /\ res[r].via = "catch"
       /\ Len(queries[r]) = 2

-----------------------------------------------------------------------------
(* Properties of the pagination loop (SpecPaging) *)

\* Every page the run has had an answer for was full.
OnlyFullPages(log) ==
  /\ log # <<>>
  /\ \A i \in 1..Len(log) : log[i].outcome \in {"full", "pending"}
  /\ \E i \in 1..Len(log) : log[i].outcome = "full"

\* C24: every /fetch call is answered in the end, and once (from the fresh
\* cache, with the refreshed data, with the stale data or with an error),
\* given that every page request is answered and that the service in the end
\* returns a page of fewer than 100 records or fails; the loop has no limit
\* on the number of pages: a run that has had only full pages has not
\* answered and has asked for the next page.
C24_AnswersUnlessAlwaysFull ==
  /\ \A r \in Reqs : (pc[r] = "await_page") ~> (pc[r] = "done")
  /\ [](\A r \in Reqs :
          kind[r] = "fetch" =>
            /\ pc[r] = "done" <=> res[r].status # 0
            /\ pc[r] = "done" => res[r].via \in {"fresh", "refresh", "catch"})
  /\ [][\A r \in Reqs :
          (res[r].status # 0 /\ res'[r] # res[r]) => calls' = calls + 1]_vars
  /\ [](\A r \in Reqs :
          OnlyFullPages(pageLog[r]) =>
            /\ pc[r] = "await_page"
            /\ Last(pageLog[r]).outcome = "pending"
            /\ Last(pageLog[r]).page = Len(pageLog[r]))

\* A run that went on for as long as the pages were full and answered at the
\* first short page.
C24_Witness ==
  \E r \in Reqs :
    /\ pc[r] = "done" /\ res[r].via = "refresh"
    /\ Len(pageLog[r]) = MaxPages
    /\ \A i \in 1..(MaxPages - 1) : pageLog[r][i].outcome = "full"
    /\ Last(pageLog[r]).count < 100

=============================================================================
